---- MODULE Spec2Model ----
(***************************************************************************)
(* A model of the class-component update queue (ReactFiberRoot.js, the     *)
(* UpdateQueue part) and of the child reconciler (ReactChildFiber.js).     *)
(* Update objects live in a heap (a sequence indexed by object identity)   *)
(* because the current and the work-in-progress queue share them.          *)
(***************************************************************************)
EXTENDS Integers, Sequences, FiniteSets, TLC

(***************************************************************************)
(* Bounds of the model.                                                    *)
(***************************************************************************)
MaxUpdates == 3

(***************************************************************************)
(* Lanes.  A lane mask is modelled as the set of its bits.                 *)
(***************************************************************************)
NoLane == {}
NoLanes == {}
OffscreenLane == {"Offscreen"}
RenderLane == {"L1", "L2"}

isSubsetOfLanes(set, subset) == subset \subseteq set
mergeLanes(a, b) == a \cup b
removeLanes(set, subset) == set \ subset

UpdateState == "UpdateState"
ReplaceState == "ReplaceState"
ForceUpdate == "ForceUpdate"
CaptureUpdate == "CaptureUpdate"

\* null reference to an update object
NULL == 0

(***************************************************************************)
(* Component state: a JavaScript object with the keys "log" (a sequence)   *)
(* and "v" (a number), either of which may be absent, or null.  A payload  *)
(* is null, the object {v: arg}, the updater function                      *)
(*   prevState => ({log: ((prevState && prevState.log) || []).concat(arg)})*)
(* or the updater function () => null.                                     *)
(***************************************************************************)
InitialState == [log |-> <<>>, v |-> 0]

\* null, as a state and as what a payload is or returns: it has no keys
NullState == [k \in {} |-> 0]

payloadCall(payload, prevState) ==
  IF payload.kind = "functionNull"
    THEN NullState
    ELSE [k \in {"log"} |->
            (IF "log" \in DOMAIN prevState THEN prevState["log"] ELSE <<>>)
               \o <<payload.arg>>]

payloadObject(payload) == [k \in {"v"} |-> payload.arg]

\* the fields of the prior state are dropped
assignReplaces(prevState, partialState) == partialState

\* assign({}, prevState, partialState)
assign(prevState, partialState) ==
  [k \in (DOMAIN prevState) \cup (DOMAIN partialState) |->
      IF k \in DOMAIN partialState THEN partialState[k] ELSE prevState[k]]

\* typeof payload === 'function'
isFunction(payload) == payload.kind \in {"function", "functionNull"}

\* the state returned by getStateFromUpdate
getStateFromUpdate(update, prevState) ==
  LET payload == update.payload
      \* the payload when it is not a function: null or an object
      value == IF payload.kind = "null" THEN NullState ELSE payloadObject(payload)
  IN  CASE update.tag = ReplaceState ->
             IF isFunction(payload) THEN payloadCall(payload, prevState) ELSE value
        [] update.tag \in {CaptureUpdate, UpdateState} ->
             LET partialState == IF isFunction(payload)
                                   THEN payloadCall(payload, prevState)
                                   ELSE value
             IN  IF partialState = NullState
                   THEN prevState
                   ELSE assign(prevState, partialState)
        [] update.tag = ForceUpdate -> prevState
        [] OTHER -> prevState

VARIABLES
  heap,           \* update objects: heap[id] = [lane, tag, payload, callback, next, orig]
  shared,         \* the SharedQueue both queues point to: [pending, lanes]
  curQ,           \* current.updateQueue
  wipQ,           \* workInProgress.updateQueue when it is a clone
  cur,            \* the current fiber: [memoizedState, lanes]
  wip,            \* the work-in-progress fiber: [exists, cloned, memoizedState, lanes, flags]
  pc,             \* "idle", or "loop" inside processUpdateQueue's do-while
  loc,            \* locals of the running processUpdateQueue call
  hasForceUpdate, \* the module-level flag
  hist            \* history: what was enqueued, applied, committed

qvars == <<heap, shared, curQ, wipQ, cur, wip, pc, loc, hasForceUpdate, hist>>

\* The children of one parent fiber (the child reconciler, further down).
VARIABLES
  currentChildren, \* the chain current.child, current.child.sibling, ...
  returnFiber,     \* the work-in-progress parent: [deletions, flags, child, mode]
  fibers,          \* the child fibers made by the pass
  newChild,        \* the description handed to the reconciler
  tracked,         \* shouldTrackSideEffects of the reconciler that ran
  thrown,          \* what the reconciler threw to its caller, or NoThrow
  rpc              \* "idle", "reconciled" once the reconciler has returned the
                   \* children, "thrown" once it has thrown to its caller

cvars == <<currentChildren, returnFiber, fibers, newChild, tracked, thrown, rpc>>

\* Hydration of one root (the hydration context, further down).
VARIABLES
  dom,                    \* the hydratable instances of the container
  tree,                   \* the fibers being rendered
  hydrationParentFiber,   \* module-level
  nextHydratableInstance, \* module-level
  isHydrating,            \* module-level
  workInProgress,         \* the fiber the work loop is at
  hpc,                    \* "idle", "begin", "complete", "thrown", "done"
  attempted,              \* the instances the last claim handed to tryHydrate
  retried                 \* the dehydrated boundary a later pass hydrates, or NULL

hvars == <<dom, tree, hydrationParentFiber, nextHydratableInstance, isHydrating,
           workInProgress, hpc, attempted, retried>>

vars == <<qvars, cvars, hvars>>

EmptyQueue(state) ==
  [baseState |-> state, firstBaseUpdate |-> NULL, lastBaseUpdate |-> NULL,
   callbacks |-> <<>>]

NoLoc ==
  [update |-> NULL, newState |-> InitialState, newLanes |-> NoLanes,
   newBaseState |-> InitialState, newFirstBaseUpdate |-> NULL,
   newLastBaseUpdate |-> NULL, firstBaseUpdate |-> NULL,
   renderLanes |-> NoLanes, rootRenderLanes |-> NoLanes,
   startState |-> InitialState, visited |-> <<>>]

\* History variable: n records were enqueued so far (record i is the i-th
\* enqueued), expected is the fold of all of them in insertion order, tiers
\* their lanes; wipApplied and committed are the records folded by the work
\* in progress and by committed passes; discarded tells whether a pass was
\* thrown away, rebased whether some record was folded after a skipped one;
\* during are the records enqueued by payload functions in the running call
\* of processUpdateQueue; collected are the callbacks that committed passes
\* found in the queue's callbacks list, again tells whether one was found a
\* second time.
NoHistory ==
  [n |-> 0, expected |-> InitialState, tiers |-> {}, wipApplied |-> {},
   committed |-> {}, discarded |-> FALSE, rebased |-> FALSE, during |-> {},
   collected |-> {}, again |-> FALSE]

\* initializeUpdateQueue on the fiber that createFiberRoot makes current
InitQueue ==
  /\ heap = <<>>
  /\ shared = [pending |-> NULL, lanes |-> NoLanes]
  /\ curQ = EmptyQueue(InitialState)
  /\ wipQ = EmptyQueue(InitialState)
  /\ cur = [memoizedState |-> InitialState, lanes |-> NoLanes]
  /\ wip = [exists |-> FALSE, cloned |-> FALSE, memoizedState |-> InitialState,
            lanes |-> NoLanes, flags |-> {}]
  /\ pc = "idle"
  /\ loc = NoLoc
  /\ hasForceUpdate = FALSE
  /\ hist = NoHistory

(***************************************************************************)
(* Walking linked lists of the heap.                                       *)
(***************************************************************************)
RECURSIVE ListFrom(_, _, _)
\* ids met following next from id, at most fuel steps
ListFrom(h, id, fuel) ==
  IF id = NULL \/ fuel = 0 THEN <<>>
  ELSE <<id>> \o ListFrom(h, h[id].next, fuel - 1)

BaseList(h, first) == ListFrom(h, first, Len(h))

\* the circular pending list, first to last
PendingList(h, pending) ==
  IF pending = NULL THEN <<>>
  ELSE LET walk == ListFrom(h, h[pending].next, Len(h))
           RECURSIVE Upto(_)
           Upto(i) == IF i > Len(walk) THEN walk
                      ELSE IF walk[i] = pending THEN SubSeq(walk, 1, i)
                      ELSE Upto(i + 1)
       IN  Upto(1)

Origs(h, ids) == [i \in 1..Len(ids) |-> h[ids[i]].orig]
Range(s) == {s[i] : i \in 1..Len(s)}

(***************************************************************************)
(* enqueueUpdate: append to the circular list shared.pending.              *)
(***************************************************************************)
\* the heap after linking a new update object into the circular list
enqueueHeap(h, pending, update) ==
  LET id == Len(h) + 1 IN
  IF pending = NULL
    THEN Append(h, [update EXCEPT !.next = id])
    ELSE Append([h EXCEPT ![pending].next = id],
                [update EXCEPT !.next = h[pending].next])

enqueuePendingKeepsLast(h, pending) == IF pending = NULL THEN Len(h) + 1 ELSE pending

\* sharedQueue.pending after the update object was allocated and linked
enqueuePending(h, pending) == Len(h) + 1

createUpdate(lane, tag, payload, callback, orig) ==
  [lane |-> lane, tag |-> tag, payload |-> payload, callback |-> callback,
   next |-> NULL, orig |-> orig]

\* the update records a caller may enqueue; n is the record's insertion number
UpdateInputs(n) ==
  { createUpdate(k.lane, k.tag, [kind |-> k.kind, arg |-> n], n, n) :
      k \in { [lane |-> {"L1"}, tag |-> UpdateState, kind |-> "function"],
              [lane |-> {"L2"}, tag |-> UpdateState, kind |-> "function"],
              [lane |-> {"L1", "Offscreen"}, tag |-> UpdateState, kind |-> "function"],
              [lane |-> {"L1"}, tag |-> ReplaceState, kind |-> "object"],
              [lane |-> {"L2"}, tag |-> ReplaceState, kind |-> "object"],
              [lane |-> {"L2"}, tag |-> ForceUpdate, kind |-> "null"] } }

\* the updates a payload function may enqueue while it is called
RenderPhaseInputs(n) ==
  { u \in UpdateInputs(n) : u.tag = UpdateState /\ "Offscreen" \notin u.lane }

\* what the history records of an enqueued update
Logged(h, update) ==
  [h EXCEPT !.n = @ + 1,
            !.expected = getStateFromUpdate(update, @),
            !.tiers = @ \cup {update.lane}]

EnqueueUpdate(update) ==
  /\ pc = "idle"
  /\ hist.n < MaxUpdates
  /\ heap' = enqueueHeap(heap, shared.pending, update)
  /\ shared' = [shared EXCEPT !.pending = enqueuePending(heap, shared.pending)]
  /\ hist' = Logged(hist, update)
  /\ UNCHANGED <<curQ, wipQ, cur, wip, pc, loc, hasForceUpdate>>
  /\ UNCHANGED <<cvars, hvars>>

(***************************************************************************)
(* A render pass: the work loop creates the work-in-progress fiber from    *)
(* the current one (sharing current's queue object), clones the queue,     *)
(* processes it, and then either commits or discards the work in progress. *)
(***************************************************************************)
StartRender ==
  /\ pc = "idle"
  /\ ~wip.exists
  /\ wip' = [exists |-> TRUE, cloned |-> FALSE,
             memoizedState |-> cur.memoizedState, lanes |-> cur.lanes,
             flags |-> {}]
  /\ loc' = NoLoc
  /\ UNCHANGED <<heap, shared, curQ, wipQ, cur, pc, hasForceUpdate, hist>>
  /\ UNCHANGED <<cvars, hvars>>

cloneUpdateQueue ==
  /\ pc = "idle"
  /\ wip.exists
  /\ ~wip.cloned
  /\ wipQ' = [baseState |-> curQ.baseState,
              firstBaseUpdate |-> curQ.firstBaseUpdate,
              lastBaseUpdate |-> curQ.lastBaseUpdate,
              callbacks |-> <<>>]
  /\ wip' = [wip EXCEPT !.cloned = TRUE]
  /\ UNCHANGED <<heap, shared, curQ, cur, pc, loc, hasForceUpdate, hist>>
  /\ UNCHANGED <<cvars, hvars>>

(***************************************************************************)
(* Unreachable update objects are garbage.  Dropping them and renaming the *)
(* remaining objects in allocation order keeps the heap canonical.         *)
(***************************************************************************)
Reachable(h, roots) ==
  UNION { Range(ListFrom(h, r, Len(h))) : r \in roots \ {NULL} }

Rank(R, id) == IF id = NULL THEN NULL ELSE Cardinality({j \in R : j <= id})

collectHeap(h, R) ==
  [i \in 1..Cardinality(R) |->
     LET id == CHOOSE j \in R : Rank(R, j) = i
     IN  [h[id] EXCEPT !.next = Rank(R, @)]]

relinkQueue(queue, R) ==
  [queue EXCEPT !.firstBaseUpdate = Rank(R, @), !.lastBaseUpdate = Rank(R, @)]

QueueRoots(queue) == {queue.firstBaseUpdate, queue.lastBaseUpdate}

(***************************************************************************)
(* processUpdateQueue, first part: reset the flag, transfer the pending    *)
(* list to the base list of the work-in-progress queue and of the current  *)
(* queue, and set up the loop.                                             *)
(***************************************************************************)
\* heap after "last.next = first" when last is an object
linkAfter(h, last, first) ==
  IF last = NULL THEN h ELSE [h EXCEPT ![last].next = first]

processUpdateQueueBegin(renderLanes, rootRenderLanes) ==
  /\ pc = "idle"
  /\ wip.exists
  /\ wip.cloned
  /\ hasForceUpdate' = FALSE
  /\ LET pendingQueue == shared.pending
         lastPendingUpdate == pendingQueue
         firstPendingUpdate == heap[lastPendingUpdate].next
         hasPending == pendingQueue # NULL
         \* lastPendingUpdate.next = null
         h1 == IF hasPending THEN [heap EXCEPT ![lastPendingUpdate].next = NULL]
               ELSE heap
         firstBaseUpdate ==
           IF hasPending /\ wipQ.lastBaseUpdate = NULL THEN firstPendingUpdate
           ELSE wipQ.firstBaseUpdate
         \* lastBaseUpdate.next = firstPendingUpdate
         h2 == IF hasPending THEN linkAfter(h1, wipQ.lastBaseUpdate, firstPendingUpdate)
               ELSE h1
         lastBaseUpdate == IF hasPending THEN lastPendingUpdate ELSE wipQ.lastBaseUpdate
         currentLastBaseUpdate == curQ.lastBaseUpdate
         toCurrent == hasPending /\ currentLastBaseUpdate # lastBaseUpdate
         h3 == IF toCurrent THEN linkAfter(h2, currentLastBaseUpdate, firstPendingUpdate)
               ELSE h2
     IN
       /\ heap' = h3
       /\ shared' = IF hasPending THEN [shared EXCEPT !.pending = NULL] ELSE shared
       /\ curQ' = IF toCurrent
                    THEN [curQ EXCEPT
                            !.firstBaseUpdate =
                               IF currentLastBaseUpdate = NULL THEN firstPendingUpdate ELSE @,
                            !.lastBaseUpdate = lastPendingUpdate]
                    ELSE curQ
       /\ IF firstBaseUpdate # NULL
            THEN /\ pc' = "loop"
                 /\ loc' = [update |-> firstBaseUpdate,
                            newState |-> wipQ.baseState,
                            newLanes |-> NoLanes,
                            newBaseState |-> wipQ.baseState,
                            newFirstBaseUpdate |-> NULL,
                            newLastBaseUpdate |-> NULL,
                            firstBaseUpdate |-> firstBaseUpdate,
                            renderLanes |-> renderLanes,
                            rootRenderLanes |-> rootRenderLanes,
                            startState |-> wipQ.baseState,
                            visited |-> <<>>]
            ELSE /\ pc' = "idle"
                 /\ loc' = [NoLoc EXCEPT !.renderLanes = renderLanes,
                                         !.rootRenderLanes = rootRenderLanes]
  /\ hist' = [hist EXCEPT !.during = {}]
  /\ UNCHANGED <<wipQ, cur, wip>>
  /\ UNCHANGED <<cvars, hvars>>

(***************************************************************************)
(* processUpdateQueue, one iteration of the do-while loop.  enq is the     *)
(* sequence of updates the payload function enqueues on the same node      *)
(* while it is being called (a render-phase update, enqueueUpdate's        *)
(* first branch); it is empty unless the payload is a function that is     *)
(* called in this iteration.  The iteration that leaves the loop also      *)
(* runs the code after the loop.                                           *)
(***************************************************************************)
shouldSkipUpdate(update, renderLanes, rootRenderLanes) ==
  LET updateLane == removeLanes(update.lane, OffscreenLane)
      isHiddenUpdate == updateLane # update.lane
  IN  IF isHiddenUpdate
        THEN ~isSubsetOfLanes(rootRenderLanes, updateLane)
        ELSE ~isSubsetOfLanes(renderLanes, updateLane)

\* the clone appended to the new base list when the update is skipped
skippedClone(update) ==
  [lane |-> removeLanes(update.lane, OffscreenLane), tag |-> update.tag,
   payload |-> update.payload, callback |-> update.callback, next |-> NULL,
   orig |-> update.orig]

\* the clone keeps the callback of the update
rebasedKeepsCallback(update) ==
  [lane |-> NoLane, tag |-> update.tag, payload |-> update.payload,
   callback |-> update.callback, next |-> NULL, orig |-> update.orig]

\* the clone keeps the lane of the update
rebasedKeepsLane(update) ==
  [lane |-> removeLanes(update.lane, OffscreenLane), tag |-> update.tag,
   payload |-> update.payload, callback |-> NULL, next |-> NULL, orig |-> update.orig]

\* the clone appended to the new base list when the update is applied after a skip
rebasedClone(update) ==
  [lane |-> NoLane, tag |-> update.tag, payload |-> update.payload,
   callback |-> NULL, next |-> NULL, orig |-> update.orig]

retainedOnlyWhenSkipped(skip, newLastBaseUpdate) == skip

\* every record is cloned into the new base list
retainedAlways(skip, newLastBaseUpdate) == TRUE

\* whether the loop appends a clone of the update to the new base list
retained(skip, newLastBaseUpdate) == skip \/ newLastBaseUpdate # NULL

capturedAtEverySkip(skip, newLastBaseUpdate, newState, newBaseState) ==
  IF skip THEN newState ELSE newBaseState

\* the base state the loop captures when it meets update
capturedBaseState(skip, newLastBaseUpdate, newState, newBaseState) ==
  IF skip /\ newLastBaseUpdate = NULL THEN newState ELSE newBaseState

\* the flags set on the fiber by one iteration
stepFlags(flags, update, skip) ==
  LET isHiddenUpdate == removeLanes(update.lane, OffscreenLane) # update.lane
      hasCallback == ~skip /\ update.callback # NULL
      captured == ~skip /\ update.tag = CaptureUpdate
  IN  ((flags \ (IF captured THEN {"ShouldCapture"} ELSE {}))
         \cup (IF captured THEN {"DidCapture"} ELSE {}))
         \cup (IF hasCallback THEN {"Callback"} ELSE {})
         \cup (IF hasCallback /\ isHiddenUpdate THEN {"Visibility"} ELSE {})

\* a skipped ForceUpdate record sets the flag as well
forcesWhenSkipped(update, skip) == update.tag = ForceUpdate

\* hasForceUpdate = true: in getStateFromUpdate, which a skipped record does
\* not reach
forcesUpdate(update, skip) == ~skip /\ update.tag = ForceUpdate

\* the loop is left although the shared queue holds updates
loopEndsWithList(next, pendingQueue) == next = NULL

\* the loop is left as soon as the shared queue is empty
loopEndsOnEmptyBuffer(next, pendingQueue) == pendingQueue = NULL

\* update === null after update = update.next, and queue.shared.pending === null
loopEnds(next, pendingQueue) == next = NULL /\ pendingQueue = NULL

processUpdateQueueStep(enq) ==
  /\ pc = "loop"
  /\ LET update == heap[loc.update]
         updateLane == removeLanes(update.lane, OffscreenLane)
         skip == shouldSkipUpdate(update, loc.renderLanes, loc.rootRenderLanes)
         calls == ~skip /\ isFunction(update.payload)
         cloned == retained(skip, loc.newLastBaseUpdate)
         cloneId == Len(heap) + 1
         h1 == IF cloned
                 THEN Append(linkAfter(heap, loc.newLastBaseUpdate, cloneId),
                             IF skip THEN skippedClone(update) ELSE rebasedClone(update))
                 ELSE heap
         newFirstBaseUpdate ==
           IF cloned /\ loc.newLastBaseUpdate = NULL THEN cloneId
           ELSE loc.newFirstBaseUpdate
         newLastBaseUpdate == IF cloned THEN cloneId ELSE loc.newLastBaseUpdate
         newBaseState ==
           capturedBaseState(skip, loc.newLastBaseUpdate, loc.newState, loc.newBaseState)
         newLanes == IF skip THEN mergeLanes(loc.newLanes, updateLane) ELSE loc.newLanes
         newState == IF skip THEN loc.newState
                     ELSE getStateFromUpdate(update, loc.newState)
         force == forcesUpdate(update, skip)
         callbacks == IF ~skip /\ update.callback # NULL
                        THEN Append(wipQ.callbacks, update.callback)
                        ELSE wipQ.callbacks
         \* the render-phase updates enqueued by the payload function
         h2 == IF Len(enq) = 1 THEN enqueueHeap(h1, shared.pending, enq[1]) ELSE h1
         pending2 == IF Len(enq) = 1 THEN enqueuePending(h1, shared.pending)
                     ELSE shared.pending
         \* update = update.next
         next == h2[loc.update].next
         splice == next = NULL /\ pending2 # NULL
         done == loopEnds(next, pending2)
         lastPendingUpdate == pending2
         firstPendingUpdate == h2[lastPendingUpdate].next
         h3 == IF splice THEN [h2 EXCEPT ![lastPendingUpdate].next = NULL] ELSE h2
         visited == Append(loc.visited,
                           [update |-> [update EXCEPT !.next = NULL],
                            skipped |-> skip])
         newQueue == [baseState |-> IF newLastBaseUpdate = NULL THEN newState
                                    ELSE newBaseState,
                      firstBaseUpdate |-> newFirstBaseUpdate,
                      lastBaseUpdate |-> newLastBaseUpdate,
                      callbacks |-> callbacks]
         R == Reachable(h3, QueueRoots(curQ) \cup QueueRoots(newQueue) \cup {pending2})
     IN
       /\ Len(enq) <= 1
       /\ Len(enq) = 1 => (calls /\ hist.n < MaxUpdates)
       /\ hasForceUpdate' = (hasForceUpdate \/ force)
       /\ hist' = [(IF Len(enq) = 1 THEN Logged(hist, enq[1]) ELSE hist) EXCEPT
                     !.rebased = @ \/ (~skip /\ loc.newLastBaseUpdate # NULL),
                     !.during = IF Len(enq) = 1 THEN @ \cup {hist.n + 1} ELSE @,
                     !.wipApplied = IF skip THEN @ ELSE @ \cup {update.orig}]
       /\ wip' = [wip EXCEPT
                    !.flags = stepFlags(@, update, skip),
                    !.lanes = IF done THEN newLanes ELSE @,
                    !.memoizedState = IF done THEN newState ELSE @]
       /\ IF done
            THEN /\ pc' = "idle"
                 /\ heap' = collectHeap(h3, R)
                 /\ wipQ' = relinkQueue(newQueue, R)
                 /\ curQ' = relinkQueue(curQ, R)
                 /\ shared' = [shared EXCEPT
                                 !.pending = Rank(R, pending2),
                                 !.lanes = IF loc.firstBaseUpdate = NULL THEN NoLanes ELSE @]
                 /\ loc' = [loc EXCEPT
                              !.update = NULL,
                              !.firstBaseUpdate = NULL,
                              !.newState = newState,
                              !.newLanes = newLanes,
                              !.newBaseState = newBaseState,
                              !.newFirstBaseUpdate = NULL,
                              !.newLastBaseUpdate = NULL,
                              !.visited = visited]
            ELSE /\ pc' = "loop"
                 /\ heap' = h3
                 /\ wipQ' = [wipQ EXCEPT
                               !.lastBaseUpdate = IF splice THEN lastPendingUpdate ELSE @,
                               !.callbacks = callbacks]
                 /\ curQ' = curQ
                 /\ shared' = [shared EXCEPT !.pending = IF splice THEN NULL ELSE pending2]
                 /\ loc' = [loc EXCEPT
                              !.update = IF splice THEN firstPendingUpdate ELSE next,
                              !.newState = newState,
                              !.newLanes = newLanes,
                              !.newBaseState = newBaseState,
                              !.newFirstBaseUpdate = newFirstBaseUpdate,
                              !.newLastBaseUpdate = newLastBaseUpdate,
                              !.visited = visited]
  /\ UNCHANGED cur
  /\ UNCHANGED <<cvars, hvars>>

(***************************************************************************)
(* The end of a pass: the work in progress becomes current (the commit     *)
(* phase also runs commitCallbacks), or it is thrown away.                 *)
(***************************************************************************)
commitCallbacks(queue) == [queue EXCEPT !.callbacks = <<>>]

NoWip ==
  [exists |-> FALSE, cloned |-> FALSE, memoizedState |-> InitialState,
   lanes |-> NoLanes, flags |-> {}]

Commit ==
  /\ pc = "idle"
  /\ wip.exists
  /\ LET queue == IF wip.cloned THEN commitCallbacks(wipQ) ELSE commitCallbacks(curQ)
         R == Reachable(heap, QueueRoots(queue) \cup {shared.pending})
     IN  /\ heap' = collectHeap(heap, R)
         /\ curQ' = relinkQueue(queue, R)
         /\ shared' = [shared EXCEPT !.pending = Rank(R, @)]
  /\ cur' = [memoizedState |-> wip.memoizedState, lanes |-> wip.lanes]
  /\ wip' = NoWip
  /\ wipQ' = EmptyQueue(InitialState)
  /\ loc' = NoLoc
  /\ LET callbacks == IF wip.cloned THEN wipQ.callbacks ELSE curQ.callbacks
     IN  hist' = [hist EXCEPT
                    !.committed = @ \cup hist.wipApplied, !.wipApplied = {},
                    !.during = {},
                    !.collected = @ \cup Range(callbacks),
                    !.again = @ \/ Range(callbacks) \cap hist.collected # {}
                                \/ Cardinality(Range(callbacks)) # Len(callbacks)]
  /\ UNCHANGED <<pc, hasForceUpdate>>
  /\ UNCHANGED <<cvars, hvars>>

Discard ==
  /\ pc = "idle"
  /\ wip.exists
  /\ LET R == Reachable(heap, QueueRoots(curQ) \cup {shared.pending})
     IN  /\ heap' = collectHeap(heap, R)
         /\ curQ' = relinkQueue(curQ, R)
         /\ shared' = [shared EXCEPT !.pending = Rank(R, @)]
  /\ wip' = NoWip
  /\ wipQ' = EmptyQueue(InitialState)
  /\ loc' = NoLoc
  /\ hist' = [hist EXCEPT !.discarded = TRUE, !.wipApplied = {}, !.during = {}]
  /\ UNCHANGED <<cur, pc, hasForceUpdate>>
  /\ UNCHANGED <<cvars, hvars>>

\* the masks a pass may render at: the root's render lanes are among them
RenderMasks ==
  { m \in [render : (SUBSET RenderLane) \ {{}}, root : (SUBSET RenderLane) \ {{}}] :
      m.root \subseteq m.render }

NextQueue ==
  \/ \E u \in UpdateInputs(hist.n + 1) : EnqueueUpdate(u)
  \/ StartRender
  \/ cloneUpdateQueue
  \/ \E m \in RenderMasks : processUpdateQueueBegin(m.render, m.root)
  \/ \E enq \in {<<>>} \cup {<<u>> : u \in RenderPhaseInputs(hist.n + 1)} :
        processUpdateQueueStep(enq)
  \/ Commit
  \/ Discard

(***************************************************************************)
(* entangleTransitions and enqueueCapturedUpdate, and the specification    *)
(* of the queue that has them.  L2 stands for the transition lanes.        *)
(***************************************************************************)
MaxCaptureUpdates == 1

TransitionLanes == {"L2"}
isTransitionLane(lane) == lane \cap TransitionLanes # {}
intersectLanes(a, b) == a \cap b

\* pendingLanes is root.pendingLanes
entangleTransitions(pendingLanes, lane) ==
  /\ pc = "idle"
  /\ shared' = IF isTransitionLane(lane)
                 THEN [shared EXCEPT
                         !.lanes = mergeLanes(intersectLanes(@, pendingLanes), lane)]
                 ELSE shared
  /\ UNCHANGED <<heap, curQ, wipQ, cur, wip, pc, loc, hasForceUpdate, hist>>
  /\ UNCHANGED <<cvars, hvars>>

\* captured records have no insertion number
CapturedOrig == NULL

\* the records thrown by a child: createRootErrorUpdate, createClassErrorUpdate
CapturedInputs ==
  { createUpdate(lane, CaptureUpdate, [kind |-> "object", arg |-> 9], NULL, CapturedOrig) :
      lane \in {{"L1"}, {"L2"}} }

\* the clones of the records ids, linked in order behind the objects of h, and
\* last linked behind them
appendClones(h, ids, last) ==
  h \o [i \in 1..Len(ids) |->
          [lane |-> h[ids[i]].lane, tag |-> h[ids[i]].tag,
           payload |-> h[ids[i]].payload, callback |-> NULL,
           next |-> Len(h) + i + 1, orig |-> h[ids[i]].orig]]
    \o <<last>>

\* the work-in-progress queue is the clone although it is the current queue
capturedBehindCurrent(queue, currentQueue, cloned) == FALSE

\* queue === currentQueue: cloneUpdateQueue has not run on the work in progress
isCurrentQueue(queue, currentQueue, cloned) == ~cloned

enqueueCapturedUpdate(capturedUpdate) ==
  /\ pc = "idle"
  /\ wip.exists
  \* one captured record at a time
  /\ \A id \in 1..Len(heap) : heap[id].orig # CapturedOrig
  /\ IF isCurrentQueue(wipQ, curQ, wip.cloned)
       THEN LET list == BaseList(heap, curQ.firstBaseUpdate)
            IN  /\ heap' = appendClones(heap, list, capturedUpdate)
                /\ wipQ' = [baseState |-> curQ.baseState,
                            firstBaseUpdate |-> Len(heap) + 1,
                            lastBaseUpdate |-> Len(heap) + Len(list) + 1,
                            callbacks |-> curQ.callbacks]
                /\ wip' = [wip EXCEPT !.cloned = TRUE]
       ELSE LET queue == IF wip.cloned THEN wipQ ELSE curQ
                lastBaseUpdate == queue.lastBaseUpdate
                id == Len(heap) + 1
            IN  /\ heap' = Append(linkAfter(heap, lastBaseUpdate, id), capturedUpdate)
                /\ wipQ' = [queue EXCEPT
                              !.firstBaseUpdate = IF lastBaseUpdate = NULL THEN id ELSE @,
                              !.lastBaseUpdate = id]
                /\ wip' = [wip EXCEPT !.cloned = TRUE]
  /\ UNCHANGED <<shared, curQ, cur, pc, loc, hasForceUpdate, hist>>
  /\ UNCHANGED <<cvars, hvars>>

NextCapture ==
  \/ NextQueue /\ hist'.n <= MaxCaptureUpdates
  \/ \E pendingLanes \in SUBSET RenderLane, lane \in {{"L1"}, {"L2"}} :
        entangleTransitions(pendingLanes, lane)
  \/ \E u \in CapturedInputs : enqueueCapturedUpdate(u)

(***************************************************************************)
(* Properties of the update queue.                                         *)
(***************************************************************************)
RECURSIVE FoldUpdates(_, _)
\* folding a sequence of update records into a state, all of them applied
FoldUpdates(state, updates) ==
  IF updates = <<>> THEN state
  ELSE FoldUpdates(getStateFromUpdate(Head(updates), state), Tail(updates))

IsIncreasing(s) == \A i, j \in 1..Len(s) : i < j => s[i] < s[j]

BaseOrigs(first) == Origs(heap, BaseList(heap, first))
PendingOrigs == Origs(heap, PendingList(heap, shared.pending))

\* a pass has just run to its end on the work in progress
PassEnded ==
  /\ pc = "idle"
  /\ wip.exists
  /\ loc.renderLanes # NoLanes
  /\ shared.pending = NULL

\* the masks of the last pass include the tier of every record enqueued so far
MaskCoversAll ==
  \A lane \in hist.tiers :
     ~shouldSkipUpdate([lane |-> lane], loc.renderLanes, loc.rootRenderLanes)

\* C1: after a pass whose mask includes the tier of every record, the node's
\* state is the fold of all records in insertion order, however many passes at
\* whatever masks came before (no pass having been discarded in between).
QueueDeterminism ==
  (PassEnded /\ MaskCoversAll /\ ~hist.discarded) => wip.memoizedState = hist.expected

\* C1 witness: three records were folded, one of them a second time after it
\* had been folded behind a skipped record, and the last pass covered all tiers.
QueueDeterminismWitness ==
  /\ PassEnded /\ MaskCoversAll /\ ~hist.discarded
  /\ hist.rebased
  /\ hist.n = 3
  /\ wip.memoizedState = [log |-> <<1, 2, 3>>, v |-> 0]

FirstSkipped(visited) ==
  CHOOSE k \in 1..Len(visited) :
    visited[k].skipped /\ \A j \in 1..(k - 1) : ~visited[j].skipped

VisitedUpdates(visited, from, to) ==
  [i \in 1..(to - from + 1) |-> visited[from + i - 1].update]

\* C2: a pass that skipped a record leaves as baseState the state computed from
\* the records before the first skipped one, and as base list the clones of the
\* first skipped record and of every later record, in order.
RebaseOnFirstSkip ==
  (PassEnded /\ \E k \in 1..Len(loc.visited) : loc.visited[k].skipped) =>
    LET k == FirstSkipped(loc.visited)
        list == BaseList(heap, wipQ.firstBaseUpdate)
    IN  /\ wipQ.baseState =
             FoldUpdates(loc.startState, VisitedUpdates(loc.visited, 1, k - 1))
        /\ Len(list) = Len(loc.visited) - k + 1
        /\ \A i \in 1..Len(list) :
             /\ heap[list[i]].orig = loc.visited[k + i - 1].update.orig
             /\ heap[list[i]].tag = loc.visited[k + i - 1].update.tag
             /\ heap[list[i]].payload = loc.visited[k + i - 1].update.payload
        /\ wipQ.lastBaseUpdate = list[Len(list)]

\* C2 witness: records [L1: set 1, L2: set 2] at mask L1 give state 1, baseState
\* 1 and the retained list [set 2].
RebaseOnFirstSkipWitness ==
  /\ PassEnded
  /\ loc.renderLanes = {"L1"}
  /\ Len(loc.visited) = 2
  /\ loc.visited[1].update.tag = ReplaceState /\ ~loc.visited[1].skipped
  /\ loc.visited[2].update.tag = ReplaceState /\ loc.visited[2].skipped
  /\ wip.memoizedState = [v |-> 1]
  /\ wipQ.baseState = [v |-> 1]
  /\ BaseOrigs(wipQ.firstBaseUpdate) = <<2>>

\* the header's example cut to three records: base '' with A1, B2, C1 at
\* priority 1 gives 'AC', baseState 'A' and the retained list [B2, C1]
RebaseHeaderExample ==
  /\ PassEnded
  /\ loc.renderLanes = {"L1"}
  /\ Len(loc.visited) = 3
  /\ wip.memoizedState = [log |-> <<1, 3>>, v |-> 0]
  /\ wipQ.baseState = [log |-> <<1>>, v |-> 0]
  /\ BaseOrigs(wipQ.firstBaseUpdate) = <<2, 3>>

QueueHolds(first, i) ==
  \/ i \in hist.committed
  \/ i \in Range(BaseOrigs(first))
  \/ i \in Range(PendingOrigs)

\* C3: no enqueued record is lost: with no work in progress (after a commit or
\* a discard) every record was applied by a committed pass, is in the current
\* queue's base list or is pending; so is it in a queue freshly cloned.
NoUpdateLost ==
  /\ (pc = "idle" /\ ~wip.exists) =>
        \A i \in 1..hist.n : QueueHolds(curQ.firstBaseUpdate, i)
  /\ (pc = "idle" /\ wip.exists /\ wip.cloned /\ loc = NoLoc) =>
        \A i \in 1..hist.n : QueueHolds(wipQ.firstBaseUpdate, i)

\* C4: records sit in insertion order: along the current base list followed by
\* the pending list, along the work-in-progress base list followed by the
\* pending list, and in the order the loop visits them.
InsertionOrder ==
  /\ IsIncreasing(BaseOrigs(curQ.firstBaseUpdate) \o PendingOrigs)
  /\ (pc = "idle" /\ wip.exists /\ wip.cloned) =>
        IsIncreasing(BaseOrigs(wipQ.firstBaseUpdate) \o PendingOrigs)
  /\ pc = "loop" =>
        IsIncreasing([i \in 1..Len(loc.visited) |-> loc.visited[i].update.orig]
                       \o BaseOrigs(loc.update) \o PendingOrigs)

\* C4 witness: pending records were transferred behind the records already in
\* the base list, and a lower-priority record sits before a higher-priority one
InsertionOrderWitness ==
  /\ pc = "loop"
  /\ loc.visited = <<>>
  /\ LET list == BaseList(heap, loc.firstBaseUpdate)
     IN  /\ Len(list) = 3
         /\ list[1] = wipQ.firstBaseUpdate
         /\ list[2] # wipQ.lastBaseUpdate
         /\ heap[list[1]].lane = {"L2"}
         /\ heap[list[2]].lane = {"L1"}
         /\ heap[list[3]].lane = {"L2"}

(***************************************************************************)
(* The child reconciler (ReactChildFiber.js).                              *)
(*                                                                         *)
(* The current children of a parent are a sibling chain; a fiber of the    *)
(* chain is named by its position in it (its sibling is the next position) *)
(* and carries [key, tag, elementType, index].  The fibers a pass creates  *)
(* or clones live in a heap of their own: fibers[id] = [alternate, key,    *)
(* tag, elementType, index, sibling, flags], where alternate is a position *)
(* of the current chain or NULL and sibling is the id of another fiber of  *)
(* the pass, NULL, or -p for the current fiber at position p (the stale    *)
(* link createWorkInProgress copies).                                      *)
(***************************************************************************)
\* the longest array of elements, and the longest array that also holds text,
\* empty values and nested arrays
MaxChildren == 3
MaxMixed == 2

\* key === null
NoKey == "null"
\* elementType of a text or fragment fiber
NoType == "null"
HostComponent == "HostComponent"
HostText == "HostText"
Fragment == "Fragment"
REACT_FRAGMENT_TYPE == "react.fragment"
Placement == "Placement"
Forked == "Forked"
ChildDeletion == "ChildDeletion"
NoFlags == {}
\* the work tag of the fiber createFiberFromThrow makes
Throw == "Throw"
ConcurrentMode == "ConcurrentMode"
NoMode == "NoMode"

\* what reconciliation can raise: the error of throwOnInvalidObjectType, the
\* exception trackUsedThenable raises for a pending thenable, a thenable
\* thrown by a lazy child's init, and any other error
NoThrow == "none"
InvalidObjectError == "Objects are not valid as a React child"
SuspenseException == "SuspenseException"
ThrownThenable == "thenable"
OtherError == "Error"

(***************************************************************************)
(* Descriptions of children: a React element, a non-empty string or        *)
(* number, an empty value (null, undefined, boolean, ''), an array, a      *)
(* thenable, a lazy value, or an object of no supported shape.             *)
(* children holds the items of an array, props.children of a fragment      *)
(* element, the value of a fulfilled thenable and the value a lazy child's *)
(* init returns; type holds the status of a thenable and the outcome of a  *)
(* lazy child's init.                                                      *)
(***************************************************************************)
Element(key, type) ==
  [kind |-> "element", key |-> key, type |-> type, children |-> <<>>]
FragmentElement(key, children) ==
  [kind |-> "element", key |-> key, type |-> REACT_FRAGMENT_TYPE, children |-> children]
TextNode == [kind |-> "text", key |-> NoKey, type |-> NoType, children |-> <<>>]
EmptyNode == [kind |-> "empty", key |-> NoKey, type |-> NoType, children |-> <<>>]
ArrayNode(children) ==
  [kind |-> "array", key |-> NoKey, type |-> NoType, children |-> children]
\* an object that is no array and has an iterator function
IterableNode(children) ==
  [kind |-> "iterable", key |-> NoKey, type |-> NoType, children |-> children]
InvalidObject == [kind |-> "invalid", key |-> NoKey, type |-> NoType, children |-> <<>>]
PendingThenable ==
  [kind |-> "thenable", key |-> NoKey, type |-> "pending", children |-> <<>>]
RejectedThenable ==
  [kind |-> "thenable", key |-> NoKey, type |-> "rejected", children |-> <<>>]
FulfilledThenable(value) ==
  [kind |-> "thenable", key |-> NoKey, type |-> "fulfilled", children |-> <<value>>]
\* init(payload) returns value, or throws the thenable it waits for, or an error
LazyNode(outcome, children) ==
  [kind |-> "lazy", key |-> NoKey, type |-> outcome, children |-> children]

NoReturnFiber ==
  [deletions |-> <<>>, flags |-> NoFlags, child |-> NULL, mode |-> ConcurrentMode]

\* a parent that has no children yet and no work in progress
InitChild ==
  /\ currentChildren = <<>>
  /\ returnFiber = NoReturnFiber
  /\ fibers = <<>>
  /\ newChild = EmptyNode
  /\ tracked = TRUE
  /\ thrown = NoThrow
  /\ rpc = "idle"

siblingOf(chain, fiber) == chain[fiber].sibling

\* the deletion is recorded whether or not effects are tracked
deleteChildAlways(shouldTrackSideEffects, parent, childToDelete) ==
  IF parent.deletions = <<>>
    THEN [parent EXCEPT !.deletions = <<childToDelete>>,
                        !.flags = @ \cup {ChildDeletion}]
    ELSE [parent EXCEPT !.deletions = Append(@, childToDelete)]

deleteChild(shouldTrackSideEffects, parent, childToDelete) ==
  IF ~shouldTrackSideEffects
    THEN parent
    ELSE IF parent.deletions = <<>>
      THEN [parent EXCEPT !.deletions = <<childToDelete>>,
                          !.flags = @ \cup {ChildDeletion}]
      ELSE [parent EXCEPT !.deletions = Append(@, childToDelete)]

\* only the fiber the walk starts at is deleted
deleteFirstChildOnly(shouldTrackSideEffects, parent, chain, currentFirstChild) ==
  IF ~shouldTrackSideEffects \/ currentFirstChild = NULL
    THEN parent
    ELSE deleteChild(shouldTrackSideEffects, parent, currentFirstChild)

RECURSIVE deleteRemainingChildren(_, _, _, _)

deleteRemainingChildren(shouldTrackSideEffects, parent, chain, currentFirstChild) ==
  IF ~shouldTrackSideEffects \/ currentFirstChild = NULL
    THEN parent
    ELSE deleteRemainingChildren(shouldTrackSideEffects,
           deleteChild(shouldTrackSideEffects, parent, currentFirstChild),
           chain, siblingOf(chain, currentFirstChild))

(***************************************************************************)
(* The Map of mapRemainingChildren: entries in insertion order; a key is a *)
(* string (an explicit key) or a number (an index), which never coincide.  *)
(***************************************************************************)
MapKey(key, index) ==
  IF key # NoKey THEN [key |-> key, index |-> -1] ELSE [key |-> NoKey, index |-> index]

mapHas(m, k) == \E i \in 1..Len(m) : m[i].k = k
mapGet(m, k) ==
  IF mapHas(m, k) THEN m[CHOOSE i \in 1..Len(m) : m[i].k = k].v ELSE NULL
mapSetKeepsFirst(m, k, v) ==
  IF mapHas(m, k) THEN m ELSE Append(m, [k |-> k, v |-> v])

mapSet(m, k, v) ==
  IF mapHas(m, k)
    THEN [i \in 1..Len(m) |-> IF m[i].k = k THEN [k |-> k, v |-> v] ELSE m[i]]
    ELSE Append(m, [k |-> k, v |-> v])
mapDelete(m, k) == SelectSeq(m, LAMBDA e : e.k # k)

RECURSIVE mapRemainingFrom(_, _, _)

mapRemainingFrom(chain, existingChild, existingChildren) ==
  IF existingChild = NULL
    THEN existingChildren
    ELSE mapRemainingFrom(chain, siblingOf(chain, existingChild),
           mapSet(existingChildren,
                  MapKey(chain[existingChild].key, chain[existingChild].index),
                  existingChild))

mapRemainingChildren(chain, currentFirstChild) ==
  mapRemainingFrom(chain, currentFirstChild, <<>>)

(***************************************************************************)
(* Making fibers.                                                          *)
(***************************************************************************)
createFiber(tag, key, elementType) ==
  [alternate |-> NULL, key |-> key, tag |-> tag, elementType |-> elementType,
   index |-> 0, sibling |-> NULL, flags |-> NoFlags, pendingProps |-> NoThrow,
   self |-> NULL, return |-> NULL]

\* the parent of the call, as the value of a return link
ParentLink == -1

\* created.return = returnFiber, existing.return = returnFiber
setReturn(fiber) == [fiber EXCEPT !.return = ParentLink]

createFiberFromText == createFiber(HostText, NoKey, NoType)
createFiberFromFragment(key) == createFiber(Fragment, key, NoType)
createFiberFromElement(element) ==
  IF element.type = REACT_FRAGMENT_TYPE
    THEN createFiberFromFragment(element.key)
    ELSE createFiber(HostComponent, element.key, element.type)

\* the fiber whose begin phase throws x again
createFiberFromThrow(x) == [createFiber(Throw, NoKey, NoType) EXCEPT !.pendingProps = x]

\* the null a function returns in place of a fiber
NoFiber == createFiber("null", NoKey, NoType)

\* a function that throws x in place of returning
Thrown(x) == [createFiber("thrown", NoKey, NoType) EXCEPT !.pendingProps = x]
isThrown(fiber) == fiber.tag = "thrown"

createWorkInProgress(chain, current) ==
  [alternate |-> current, key |-> chain[current].key, tag |-> chain[current].tag,
   elementType |-> chain[current].elementType, index |-> chain[current].index,
   sibling |-> 0 - siblingOf(chain, current), flags |-> NoFlags,
   pendingProps |-> NoThrow, self |-> NULL, return |-> NULL]

useFiberKeepsLinks(chain, fiber) == createWorkInProgress(chain, fiber)

\* index and sibling reset on the previous fiber itself, which is returned
useFiberInPlace(chain, fiber) ==
  [createWorkInProgress(chain, fiber) EXCEPT !.index = 0, !.sibling = NULL,
                                             !.self = fiber]

useFiber(chain, fiber) ==
  [createWorkInProgress(chain, fiber) EXCEPT !.index = 0, !.sibling = NULL]

(***************************************************************************)
(* placeChild: [fiber, lastPlacedIndex] stands for the fiber it updates in *)
(* place and the index it returns.                                         *)
(***************************************************************************)
\* a fiber that stood at the last placed index is moved as well
isMoveOrSame(oldIndex, lastPlacedIndex) == oldIndex <= lastPlacedIndex

isMove(oldIndex, lastPlacedIndex) == oldIndex < lastPlacedIndex

stayKeepsLastPlaced(oldIndex, lastPlacedIndex) == lastPlacedIndex

\* the item can stay in place: the index placeChild returns
stayInPlace(oldIndex, lastPlacedIndex) == oldIndex

\* newFiber.index is left as useFiber or createFiber set it
placeChildKeepsIndex(shouldTrackSideEffects, chain, newFiber, lastPlacedIndex, newIndex) ==
  LET placed == [fiber |-> [newFiber EXCEPT !.flags = @ \cup {Placement}],
                 lastPlacedIndex |-> lastPlacedIndex]
  IN  IF ~shouldTrackSideEffects
        THEN [fiber |-> [newFiber EXCEPT !.flags = @ \cup {Forked}],
              lastPlacedIndex |-> lastPlacedIndex]
        ELSE IF newFiber.alternate # NULL
          THEN LET oldIndex == chain[newFiber.alternate].index
               IN  IF isMove(oldIndex, lastPlacedIndex)
                     THEN placed
                     ELSE [fiber |-> newFiber,
                           lastPlacedIndex |-> stayInPlace(oldIndex, lastPlacedIndex)]
          ELSE placed

\* a reused fiber is never marked as a move
placeChildNeverMoves(shouldTrackSideEffects, chain, newFiber, lastPlacedIndex, newIndex) ==
  LET indexed == [newFiber EXCEPT !.index = newIndex]
  IN  [fiber |-> IF ~shouldTrackSideEffects
                   THEN [indexed EXCEPT !.flags = @ \cup {Forked}]
                 ELSE IF indexed.alternate # NULL
                   THEN indexed
                   ELSE [indexed EXCEPT !.flags = @ \cup {Placement}],
       lastPlacedIndex |-> lastPlacedIndex]

placeChild(shouldTrackSideEffects, chain, newFiber, lastPlacedIndex, newIndex) ==
  LET indexed == [newFiber EXCEPT !.index = newIndex]
      placed == [fiber |-> [indexed EXCEPT !.flags = @ \cup {Placement}],
                 lastPlacedIndex |-> lastPlacedIndex]
  IN  IF ~shouldTrackSideEffects
        THEN [fiber |-> [indexed EXCEPT !.flags = @ \cup {Forked}],
              lastPlacedIndex |-> lastPlacedIndex]
        ELSE IF indexed.alternate # NULL
          THEN LET oldIndex == chain[indexed.alternate].index
               IN  IF isMove(oldIndex, lastPlacedIndex)
                     THEN placed
                     ELSE [fiber |-> indexed,
                           lastPlacedIndex |-> stayInPlace(oldIndex, lastPlacedIndex)]
          ELSE placed

placeSingleNever(shouldTrackSideEffects, newFiber) == newFiber

placeSingleChild(shouldTrackSideEffects, newFiber) ==
  IF shouldTrackSideEffects /\ newFiber.alternate = NULL
    THEN [newFiber EXCEPT !.flags = @ \cup {Placement}]
    ELSE newFiber

updateTextNode(chain, current) ==
  setReturn(IF current = NULL \/ chain[current].tag # HostText
              THEN createFiberFromText
              ELSE useFiber(chain, current))

updateFragment(chain, current, key) ==
  setReturn(IF current = NULL \/ chain[current].tag # Fragment
              THEN createFiberFromFragment(key)
              ELSE useFiber(chain, current))

updateElement(chain, current, element) ==
  IF element.type = REACT_FRAGMENT_TYPE
    THEN updateFragment(chain, current, element.key)
    ELSE setReturn(IF current # NULL /\ chain[current].elementType = element.type
                     THEN useFiber(chain, current)
                     ELSE createFiberFromElement(element))

(***************************************************************************)
(* Children that are unwrapped before use: [thrown, value] is what the     *)
(* unwrapping throws, or NoThrow and the child it returns.                 *)
(***************************************************************************)
\* init(payload) of a lazy child
resolveLazy(lazyType) ==
  [thrown |-> CASE lazyType.type = "throwsThenable" -> ThrownThenable
                [] lazyType.type = "throwsError" -> OtherError
                [] OTHER -> NoThrow,
   value |-> IF lazyType.type = "resolves" THEN lazyType.children[1] ELSE EmptyNode]

\* trackUsedThenable: the value of a fulfilled thenable, the reason of a
\* rejected one thrown, SuspenseException thrown for a pending one
unwrapThenable(thenable) ==
  [thrown |-> CASE thenable.type = "pending" -> SuspenseException
                [] thenable.type = "rejected" -> OtherError
                [] OTHER -> NoThrow,
   value |-> IF thenable.type = "fulfilled" THEN thenable.children[1] ELSE EmptyNode]

unwrap(child) ==
  IF child.kind = "lazy" THEN resolveLazy(child) ELSE unwrapThenable(child)

isWrapped(child) == child.kind \in {"lazy", "thenable"}

throwOnInvalidObjectType == Thrown(InvalidObjectError)

RECURSIVE createChild(_)

createChild(child) ==
  CASE child.kind = "text" -> setReturn(createFiberFromText)
    [] child.kind = "element" -> setReturn(createFiberFromElement(child))
    [] child.kind = "array" -> setReturn(createFiberFromFragment(NoKey))
    [] isWrapped(child) ->
         IF unwrap(child).thrown # NoThrow
           THEN Thrown(unwrap(child).thrown)
           ELSE createChild(unwrap(child).value)
    [] child.kind = "invalid" -> throwOnInvalidObjectType
    [] OTHER -> NoFiber

RECURSIVE updateSlotTextAnyKey(_, _, _)

updateSlotTextAnyKey(chain, oldFiber, child) ==
  LET key == IF oldFiber # NULL THEN chain[oldFiber].key ELSE NoKey
  IN  CASE child.kind = "text" -> updateTextNode(chain, oldFiber)
        [] child.kind = "element" ->
             IF child.key = key THEN updateElement(chain, oldFiber, child) ELSE NoFiber
        [] child.kind = "array" ->
             IF key # NoKey THEN NoFiber ELSE updateFragment(chain, oldFiber, NoKey)
        [] isWrapped(child) ->
             IF unwrap(child).thrown # NoThrow
               THEN Thrown(unwrap(child).thrown)
               ELSE updateSlotTextAnyKey(chain, oldFiber, unwrap(child).value)
        [] child.kind = "invalid" -> throwOnInvalidObjectType
        [] OTHER -> NoFiber

RECURSIVE updateSlot(_, _, _)

updateSlot(chain, oldFiber, child) ==
  LET key == IF oldFiber # NULL THEN chain[oldFiber].key ELSE NoKey
  IN  CASE child.kind = "text" ->
             IF key # NoKey THEN NoFiber ELSE updateTextNode(chain, oldFiber)
        [] child.kind = "element" ->
             IF child.key = key THEN updateElement(chain, oldFiber, child) ELSE NoFiber
        [] child.kind = "array" ->
             IF key # NoKey THEN NoFiber ELSE updateFragment(chain, oldFiber, NoKey)
        [] isWrapped(child) ->
             IF unwrap(child).thrown # NoThrow
               THEN Thrown(unwrap(child).thrown)
               ELSE updateSlot(chain, oldFiber, unwrap(child).value)
        [] child.kind = "invalid" -> throwOnInvalidObjectType
        [] OTHER -> NoFiber

RECURSIVE updateFromMapByIndex(_, _, _, _)

updateFromMapByIndex(chain, existingChildren, newIdx, child) ==
  CASE child.kind = "text" ->
         updateTextNode(chain, mapGet(existingChildren, MapKey(NoKey, newIdx)))
    [] child.kind = "element" ->
         updateElement(chain, mapGet(existingChildren, MapKey(NoKey, newIdx)), child)
    [] child.kind = "array" ->
         updateFragment(chain, mapGet(existingChildren, MapKey(NoKey, newIdx)), NoKey)
    [] isWrapped(child) ->
         IF unwrap(child).thrown # NoThrow
           THEN Thrown(unwrap(child).thrown)
           ELSE updateFromMapByIndex(chain, existingChildren, newIdx, unwrap(child).value)
    [] child.kind = "invalid" -> throwOnInvalidObjectType
    [] OTHER -> NoFiber

RECURSIVE updateFromMap(_, _, _, _)

updateFromMap(chain, existingChildren, newIdx, child) ==
  CASE child.kind = "text" ->
         updateTextNode(chain, mapGet(existingChildren, MapKey(NoKey, newIdx)))
    [] child.kind = "element" ->
         updateElement(chain, mapGet(existingChildren, MapKey(child.key, newIdx)), child)
    [] child.kind = "array" ->
         updateFragment(chain, mapGet(existingChildren, MapKey(NoKey, newIdx)), NoKey)
    [] isWrapped(child) ->
         IF unwrap(child).thrown # NoThrow
           THEN Thrown(unwrap(child).thrown)
           ELSE updateFromMap(chain, existingChildren, newIdx, unwrap(child).value)
    [] child.kind = "invalid" -> throwOnInvalidObjectType
    [] OTHER -> NoFiber

(***************************************************************************)
(* reconcileChildrenArray.  Its locals are the record                      *)
(* [fibers, parent, resultingFirstChild, previousNewFiber, oldFiber,       *)
(*  lastPlacedIndex, newIdx, existingChildren, thrown]; thrown is what a   *)
(* call inside a loop threw, which ends the function.                      *)
(***************************************************************************)
\* the new fiber is never written to previousNewFiber.sibling
linkFirstOnly(s, newFiber) ==
  [s EXCEPT !.fibers = Append(s.fibers, newFiber),
            !.resultingFirstChild = IF s.previousNewFiber = NULL THEN Len(s.fibers) + 1 ELSE @,
            !.previousNewFiber = Len(s.fibers) + 1]

\* resultingFirstChild = newFiber, or previousNewFiber.sibling = newFiber
linkFiber(s, newFiber) ==
  LET id == Len(s.fibers) + 1
      linked == IF s.previousNewFiber = NULL
                  THEN s.fibers
                  ELSE [s.fibers EXCEPT ![s.previousNewFiber].sibling = id]
  IN  [s EXCEPT !.fibers = Append(linked, newFiber),
                !.resultingFirstChild = IF s.previousNewFiber = NULL THEN id ELSE @,
                !.previousNewFiber = id]

\* place the new fiber at newIdx and append it to the chain being built
placeAndLink(shouldTrackSideEffects, chain, s, newFiber) ==
  LET placed == placeChild(shouldTrackSideEffects, chain, newFiber,
                           s.lastPlacedIndex, s.newIdx)
  IN  [linkFiber(s, placed.fiber) EXCEPT !.lastPlacedIndex = placed.lastPlacedIndex]

RECURSIVE forwardScan(_, _, _, _)

\* the first loop: old fibers and new children walked together
forwardScan(shouldTrackSideEffects, chain, newChildren, s) ==
  IF s.oldFiber = NULL \/ s.newIdx >= Len(newChildren)
    THEN s
    ELSE LET waits == chain[s.oldFiber].index > s.newIdx
             oldFiber == IF waits THEN NULL ELSE s.oldFiber
             nextOldFiber == IF waits THEN s.oldFiber ELSE siblingOf(chain, s.oldFiber)
             newFiber == updateSlot(chain, oldFiber, newChildren[s.newIdx + 1])
         IN  IF isThrown(newFiber)
               THEN [s EXCEPT !.thrown = newFiber.pendingProps]
             ELSE IF newFiber = NoFiber
               THEN [s EXCEPT !.oldFiber = IF oldFiber = NULL THEN nextOldFiber ELSE oldFiber]
               ELSE LET parent ==
                          IF shouldTrackSideEffects /\ oldFiber # NULL
                                /\ newFiber.alternate = NULL
                            THEN deleteChild(shouldTrackSideEffects, s.parent, oldFiber)
                            ELSE s.parent
                        t == placeAndLink(shouldTrackSideEffects, chain, s, newFiber)
                    IN  forwardScan(shouldTrackSideEffects, chain, newChildren,
                          [t EXCEPT !.parent = parent, !.oldFiber = nextOldFiber,
                                    !.newIdx = s.newIdx + 1])

RECURSIVE insertRemaining(_, _, _, _)

\* the second loop: no old fiber is left, the rest are insertions
insertRemaining(shouldTrackSideEffects, chain, newChildren, s) ==
  IF s.newIdx >= Len(newChildren)
    THEN s
    ELSE LET newFiber == createChild(newChildren[s.newIdx + 1])
             t == IF newFiber = NoFiber
                    THEN s
                    ELSE placeAndLink(shouldTrackSideEffects, chain, s, newFiber)
         IN  IF isThrown(newFiber)
               THEN [s EXCEPT !.thrown = newFiber.pendingProps]
               ELSE insertRemaining(shouldTrackSideEffects, chain, newChildren,
                      [t EXCEPT !.newIdx = s.newIdx + 1])

consumesNothing(shouldTrackSideEffects, existingChildren, newFiber, newIdx) ==
  existingChildren

\* a reused fiber leaves the map so that it is not deleted
consumeFromMap(shouldTrackSideEffects, existingChildren, newFiber, newIdx) ==
  IF shouldTrackSideEffects /\ newFiber.alternate # NULL
    THEN mapDelete(existingChildren, MapKey(newFiber.key, newIdx))
    ELSE existingChildren

RECURSIVE scanWithMap(_, _, _, _)

\* the third loop: the remaining new children looked up in the map
scanWithMap(shouldTrackSideEffects, chain, newChildren, s) ==
  IF s.newIdx >= Len(newChildren)
    THEN s
    ELSE LET newFiber == updateFromMap(chain, s.existingChildren, s.newIdx,
                                       newChildren[s.newIdx + 1])
             t == IF newFiber = NoFiber
                    THEN s
                    ELSE [placeAndLink(shouldTrackSideEffects, chain, s, newFiber)
                            EXCEPT !.existingChildren =
                              consumeFromMap(shouldTrackSideEffects, @, newFiber, s.newIdx)]
         IN  IF isThrown(newFiber)
               THEN [s EXCEPT !.thrown = newFiber.pendingProps]
               ELSE scanWithMap(shouldTrackSideEffects, chain, newChildren,
                      [t EXCEPT !.newIdx = s.newIdx + 1])

RECURSIVE deleteEach(_, _, _, _)

deleteEach(shouldTrackSideEffects, parent, existingChildren, i) ==
  IF i > Len(existingChildren)
    THEN parent
    ELSE deleteEach(shouldTrackSideEffects,
           deleteChild(shouldTrackSideEffects, parent, existingChildren[i].v),
           existingChildren, i + 1)

deletesNoLeftover(shouldTrackSideEffects, parent, existingChildren) == parent

\* existingChildren.forEach(child => deleteChild(returnFiber, child))
deleteLeftover(shouldTrackSideEffects, parent, existingChildren) ==
  IF shouldTrackSideEffects
    THEN deleteEach(shouldTrackSideEffects, parent, existingChildren, 1)
    ELSE parent

\* a throw leaves the loops: the fibers made and the deletions recorded so far
\* stay, nothing is returned
threw(s) ==
  [fibers |-> s.fibers, parent |-> s.parent, firstChild |-> NULL, thrown |-> s.thrown]

reconcileChildrenArray(shouldTrackSideEffects, parent, chain, currentFirstChild, newChildren) ==
  LET start == [fibers |-> <<>>, parent |-> parent, resultingFirstChild |-> NULL,
                previousNewFiber |-> NULL, oldFiber |-> currentFirstChild,
                lastPlacedIndex |-> 0, newIdx |-> 0, existingChildren |-> <<>>,
                thrown |-> NoThrow]
      s1 == forwardScan(shouldTrackSideEffects, chain, newChildren, start)
  IN  IF s1.thrown # NoThrow
        THEN threw(s1)
      ELSE IF s1.newIdx = Len(newChildren)
        THEN [fibers |-> s1.fibers,
              parent |-> deleteRemainingChildren(shouldTrackSideEffects, s1.parent,
                                                 chain, s1.oldFiber),
              firstChild |-> s1.resultingFirstChild, thrown |-> NoThrow]
        ELSE IF s1.oldFiber = NULL
          THEN LET s2 == insertRemaining(shouldTrackSideEffects, chain, newChildren, s1)
               IN  IF s2.thrown # NoThrow
                     THEN threw(s2)
                     ELSE [fibers |-> s2.fibers, parent |-> s2.parent,
                           firstChild |-> s2.resultingFirstChild, thrown |-> NoThrow]
          ELSE LET s3 == scanWithMap(shouldTrackSideEffects, chain, newChildren,
                           [s1 EXCEPT !.existingChildren =
                                        mapRemainingChildren(chain, s1.oldFiber)])
               IN  IF s3.thrown # NoThrow
                     THEN threw(s3)
                     ELSE [fibers |-> s3.fibers,
                           parent |-> deleteLeftover(shouldTrackSideEffects, s3.parent,
                                                     s3.existingChildren),
                           firstChild |-> s3.resultingFirstChild, thrown |-> NoThrow]

(***************************************************************************)
(* reconcileChildrenIterator.  An iterator is [items, position], position  *)
(* being the number of items it has yielded; next() returns the step       *)
(* [done, value] and moves the iterator.  The locals are those of          *)
(* reconcileChildrenArray and [iterator, step].                            *)
(***************************************************************************)
\* iteratorFn.call(newChildrenIterable): a fresh iterator over the items
getIterator(iterable) == [items |-> iterable.children, position |-> 0]

\* newChildren.next()
iteratorNext(iterator) ==
  IF iterator.position < Len(iterator.items)
    THEN [step |-> [done |-> FALSE, value |-> iterator.items[iterator.position + 1]],
          iterator |-> [iterator EXCEPT !.position = @ + 1]]
    ELSE [step |-> [done |-> TRUE, value |-> EmptyNode], iterator |-> iterator]

\* the update expression of the loops: newIdx++, step = newChildren.next()
nextStep(s) ==
  [s EXCEPT !.newIdx = @ + 1,
            !.step = iteratorNext(s.iterator).step,
            !.iterator = iteratorNext(s.iterator).iterator]

\* the update expression runs before the loop is left
breakAfterNextStep(s, oldFiber, nextOldFiber) ==
  nextStep([s EXCEPT !.oldFiber = IF oldFiber = NULL THEN nextOldFiber ELSE oldFiber])

\* break: the loop is left with the step that found no fiber still to process
breakFirstLoop(s, oldFiber, nextOldFiber) ==
  [s EXCEPT !.oldFiber = IF oldFiber = NULL THEN nextOldFiber ELSE oldFiber]

RECURSIVE forwardScanIterator(_, _, _)

\* the first loop: old fibers and yielded children walked together
forwardScanIterator(shouldTrackSideEffects, chain, s) ==
  IF s.oldFiber = NULL \/ s.step.done
    THEN s
    ELSE LET waits == chain[s.oldFiber].index > s.newIdx
             oldFiber == IF waits THEN NULL ELSE s.oldFiber
             nextOldFiber == IF waits THEN s.oldFiber ELSE siblingOf(chain, s.oldFiber)
             newFiber == updateSlot(chain, oldFiber, s.step.value)
         IN  IF isThrown(newFiber)
               THEN [s EXCEPT !.thrown = newFiber.pendingProps]
             ELSE IF newFiber = NoFiber
               THEN breakFirstLoop(s, oldFiber, nextOldFiber)
               ELSE LET parent ==
                          IF shouldTrackSideEffects /\ oldFiber # NULL
                                /\ newFiber.alternate = NULL
                            THEN deleteChild(shouldTrackSideEffects, s.parent, oldFiber)
                            ELSE s.parent
                        t == placeAndLink(shouldTrackSideEffects, chain, s, newFiber)
                    IN  forwardScanIterator(shouldTrackSideEffects, chain,
                          nextStep([t EXCEPT !.parent = parent, !.oldFiber = nextOldFiber]))

RECURSIVE insertRemainingIterator(_, _, _)

\* the second loop: no old fiber is left, the rest are insertions
insertRemainingIterator(shouldTrackSideEffects, chain, s) ==
  IF s.step.done
    THEN s
    ELSE LET newFiber == createChild(s.step.value)
             t == IF newFiber = NoFiber
                    THEN s
                    ELSE placeAndLink(shouldTrackSideEffects, chain, s, newFiber)
         IN  IF isThrown(newFiber)
               THEN [s EXCEPT !.thrown = newFiber.pendingProps]
               ELSE insertRemainingIterator(shouldTrackSideEffects, chain, nextStep(t))

RECURSIVE scanWithMapIterator(_, _, _)

\* the third loop: the remaining yielded children looked up in the map
scanWithMapIterator(shouldTrackSideEffects, chain, s) ==
  IF s.step.done
    THEN s
    ELSE LET newFiber == updateFromMap(chain, s.existingChildren, s.newIdx, s.step.value)
             t == IF newFiber = NoFiber
                    THEN s
                    ELSE [placeAndLink(shouldTrackSideEffects, chain, s, newFiber)
                            EXCEPT !.existingChildren =
                              consumeFromMap(shouldTrackSideEffects, @, newFiber, s.newIdx)]
         IN  IF isThrown(newFiber)
               THEN [s EXCEPT !.thrown = newFiber.pendingProps]
               ELSE scanWithMapIterator(shouldTrackSideEffects, chain, nextStep(t))

reconcileChildrenIterator(shouldTrackSideEffects, parent, chain, currentFirstChild, newChildren) ==
  LET start == [fibers |-> <<>>, parent |-> parent, resultingFirstChild |-> NULL,
                previousNewFiber |-> NULL, oldFiber |-> currentFirstChild,
                lastPlacedIndex |-> 0, newIdx |-> 0, existingChildren |-> <<>>,
                thrown |-> NoThrow,
                iterator |-> iteratorNext(newChildren).iterator,
                step |-> iteratorNext(newChildren).step]
      s1 == forwardScanIterator(shouldTrackSideEffects, chain, start)
  IN  IF s1.thrown # NoThrow
        THEN threw(s1)
      ELSE IF s1.step.done
        THEN [fibers |-> s1.fibers,
              parent |-> deleteRemainingChildren(shouldTrackSideEffects, s1.parent,
                                                 chain, s1.oldFiber),
              firstChild |-> s1.resultingFirstChild, thrown |-> NoThrow]
        ELSE IF s1.oldFiber = NULL
          THEN LET s2 == insertRemainingIterator(shouldTrackSideEffects, chain, s1)
               IN  IF s2.thrown # NoThrow
                     THEN threw(s2)
                     ELSE [fibers |-> s2.fibers, parent |-> s2.parent,
                           firstChild |-> s2.resultingFirstChild, thrown |-> NoThrow]
          ELSE LET s3 == scanWithMapIterator(shouldTrackSideEffects, chain,
                           [s1 EXCEPT !.existingChildren =
                                        mapRemainingChildren(chain, s1.oldFiber)])
               IN  IF s3.thrown # NoThrow
                     THEN threw(s3)
                     ELSE [fibers |-> s3.fibers,
                           parent |-> deleteLeftover(shouldTrackSideEffects, s3.parent,
                                                     s3.existingChildren),
                           firstChild |-> s3.resultingFirstChild, thrown |-> NoThrow]

(***************************************************************************)
(* The single-child paths.                                                 *)
(***************************************************************************)
\* the type test of reconcileSingleElement on a child whose key matched
isCompatible(child, element) ==
  IF element.type = REACT_FRAGMENT_TYPE
    THEN child.tag = Fragment
    ELSE child.elementType = element.type

deleteMismatchedOnly(shouldTrackSideEffects, parent, chain, child) ==
  deleteChild(shouldTrackSideEffects, parent, child)

\* the key matched but the type did not: the child and its siblings go
deleteMismatched(shouldTrackSideEffects, parent, chain, child) ==
  deleteRemainingChildren(shouldTrackSideEffects, parent, chain, child)

RECURSIVE reconcileSingleElement(_, _, _, _, _)

\* child is the loop variable, currentFirstChild at the call
reconcileSingleElement(shouldTrackSideEffects, parent, chain, child, element) ==
  IF child = NULL
    THEN [parent |-> parent, fiber |-> setReturn(createFiberFromElement(element))]
    ELSE IF chain[child].key = element.key
      THEN IF isCompatible(chain[child], element)
             THEN [parent |-> deleteRemainingChildren(shouldTrackSideEffects, parent,
                                chain, siblingOf(chain, child)),
                   fiber |-> setReturn(useFiber(chain, child))]
             ELSE [parent |-> deleteMismatched(shouldTrackSideEffects, parent, chain, child),
                   fiber |-> setReturn(createFiberFromElement(element))]
      ELSE reconcileSingleElement(shouldTrackSideEffects,
             deleteChild(shouldTrackSideEffects, parent, child),
             chain, siblingOf(chain, child), element)

reconcileSingleTextNode(shouldTrackSideEffects, parent, chain, currentFirstChild) ==
  IF currentFirstChild # NULL /\ chain[currentFirstChild].tag = HostText
    THEN [parent |-> deleteRemainingChildren(shouldTrackSideEffects, parent, chain,
                       siblingOf(chain, currentFirstChild)),
          fiber |-> setReturn(useFiber(chain, currentFirstChild))]
    ELSE [parent |-> deleteRemainingChildren(shouldTrackSideEffects, parent, chain,
                       currentFirstChild),
          fiber |-> setReturn(createFiberFromText)]

\* a top-level fragment without a key stands for its children
unwrapTopLevelFragment(child) ==
  IF child.kind = "element" /\ child.type = REACT_FRAGMENT_TYPE /\ child.key = NoKey
    THEN ArrayNode(child.children)
    ELSE child

RECURSIVE reconcileChildFibersImpl(_, _, _, _, _)

reconcileChildFibersImpl(shouldTrackSideEffects, parent, chain, currentFirstChild, child) ==
  LET unwrapped == unwrapTopLevelFragment(child)
  IN  CASE unwrapped.kind = "element" ->
             LET r == reconcileSingleElement(shouldTrackSideEffects, parent, chain,
                                             currentFirstChild, unwrapped)
             IN  [fibers |-> <<placeSingleChild(shouldTrackSideEffects, r.fiber)>>,
                  parent |-> r.parent, firstChild |-> 1, thrown |-> NoThrow]
        [] unwrapped.kind = "array" ->
             reconcileChildrenArray(shouldTrackSideEffects, parent, chain,
                                    currentFirstChild, unwrapped.children)
        [] unwrapped.kind = "iterable" ->
             \* reconcileChildrenIteratable: iteratorFn.call(newChildrenIterable)
             reconcileChildrenIterator(shouldTrackSideEffects, parent, chain,
                                       currentFirstChild, getIterator(unwrapped))
        [] isWrapped(unwrapped) ->
             IF unwrap(unwrapped).thrown # NoThrow
               THEN [fibers |-> <<>>, parent |-> parent, firstChild |-> NULL,
                     thrown |-> unwrap(unwrapped).thrown]
               ELSE reconcileChildFibersImpl(shouldTrackSideEffects, parent, chain,
                                             currentFirstChild, unwrap(unwrapped).value)
        [] unwrapped.kind = "invalid" ->
             [fibers |-> <<>>, parent |-> parent, firstChild |-> NULL,
              thrown |-> throwOnInvalidObjectType.pendingProps]
        [] unwrapped.kind = "text" ->
             LET r == reconcileSingleTextNode(shouldTrackSideEffects, parent, chain,
                                              currentFirstChild)
             IN  [fibers |-> <<placeSingleChild(shouldTrackSideEffects, r.fiber)>>,
                  parent |-> r.parent, firstChild |-> 1, thrown |-> NoThrow]
        [] OTHER ->
             [fibers |-> <<>>,
              parent |-> deleteRemainingChildren(shouldTrackSideEffects, parent, chain,
                                                 currentFirstChild),
              firstChild |-> NULL, thrown |-> NoThrow]

\* the test of the catch clause: SuspenseException, or a thenable thrown under
\* a parent that is not in concurrent mode (such parents exist only in a build
\* with legacy mode enabled)
\* every thrown value leaves the call
rethrowsAll(x, mode) == TRUE

\* a thenable is put in a placeholder whatever the parent's mode
rethrowsSuspenseOnly(x, mode) == x = SuspenseException

isRethrown(x, mode) ==
  x = SuspenseException \/ (mode = NoMode /\ x = ThrownThenable)

\* the catch clause, for what the try block returned or threw
catch(parent, r) ==
  IF r.thrown = NoThrow \/ isRethrown(r.thrown, parent.mode)
    THEN r
    ELSE [fibers |-> Append(r.fibers, setReturn(createFiberFromThrow(r.thrown))),
          parent |-> r.parent, firstChild |-> Len(r.fibers) + 1,
          thrown |-> NoThrow]

\* the try and catch around reconcileChildFibersImpl
reconcileChildFibers(shouldTrackSideEffects, parent, chain, currentFirstChild, child) ==
  catch(parent, reconcileChildFibersImpl(shouldTrackSideEffects, parent, chain,
                                         currentFirstChild, child))

\* the fields of the fibers of the previous chain once the call has ended: a
\* fiber of the pass that is a previous fiber itself (self) carries what the
\* call wrote to it
previousAfter(chain, fs) ==
  [p \in 1..Len(chain) |->
     LET written == {id \in 1..Len(fs) : fs[id].self = p}
     IN  IF written = {}
           THEN chain[p]
           ELSE LET f == fs[CHOOSE id \in written : TRUE]
                IN  [key |-> f.key, tag |-> f.tag, elementType |-> f.elementType,
                     index |-> f.index,
                     sibling |-> IF f.sibling > 0 /\ fs[f.sibling].self # NULL
                                   THEN fs[f.sibling].self
                                   ELSE 0 - f.sibling]]

(***************************************************************************)
(* The descriptions the parent renders.                                    *)
(***************************************************************************)
SeqsUpTo(S, n) == UNION {[1..k -> S] : k \in 0..n}

\* the elements arrays are made of: four keys, a key with two types, no key
ElementItems ==
  {Element(k, "div") : k \in {"a", "b", "c", "d", NoKey}} \cup {Element("a", "span")}

\* what else an array may hold
OtherItems == {Element(NoKey, "span"), TextNode, EmptyNode, ArrayNode(<<>>)}

Arrays ==
  SeqsUpTo(ElementItems, MaxChildren)
    \cup SeqsUpTo(ElementItems \cup OtherItems, MaxMixed)

\* children that are unwrapped, and an object that is no child
WrappedItems ==
  {InvalidObject, PendingThenable, FulfilledThenable(TextNode),
   LazyNode("throwsThenable", <<>>), LazyNode("resolves", <<Element("a", "div")>>)}

SingleInputs ==
  {Element(k, t) : k \in {"a", "b", NoKey}, t \in {"div", "span"}}
    \cup {FragmentElement("a", <<>>), TextNode, EmptyNode}
    \cup {FragmentElement(NoKey, s) : s \in SeqsUpTo(ElementItems \cup OtherItems, 1)}
    \cup WrappedItems
    \cup {RejectedThenable, LazyNode("throwsError", <<>>),
          LazyNode("resolves", <<InvalidObject>>),
          FulfilledThenable(ArrayNode(<<Element("a", "div"), InvalidObject>>))}

ThrowingArrays ==
  {s \in SeqsUpTo(ElementItems \cup WrappedItems, MaxMixed) :
     \E i \in 1..Len(s) : s[i] \in WrappedItems}

NewChildInputs ==
  SingleInputs \cup {ArrayNode(s) : s \in Arrays \cup ThrowingArrays}
    \cup {IterableNode(s) : s \in Arrays \cup ThrowingArrays}

RECURSIVE mayThrow(_)

\* the description holds something that is unwrapped or that is no child
mayThrow(child) ==
  \/ isWrapped(child)
  \/ child.kind = "invalid"
  \/ \E i \in 1..Len(child.children) : mayThrow(child.children[i])

\* the parent's mode is read by the catch clause only: parents that are not in
\* concurrent mode are taken for the descriptions that can throw
ModesFor(child) ==
  IF mayThrow(child) THEN {ConcurrentMode, NoMode} ELSE {ConcurrentMode}

(***************************************************************************)
(* Walking the chain a pass built.                                         *)
(***************************************************************************)
RECURSIVE ChainFrom(_, _, _)

ChainFrom(fs, id, fuel) ==
  IF id <= 0 \/ fuel = 0
    THEN <<>>
    ELSE <<id>> \o ChainFrom(fs, fs[id].sibling, fuel - 1)

ResultChain == ChainFrom(fibers, returnFiber.child, Len(fibers))

CurrentFirstChild == IF currentChildren = <<>> THEN NULL ELSE 1

(***************************************************************************)
(* Actions: the parent's render reconciles its children against the        *)
(* current chain; the pass is then committed (the built chain becomes the  *)
(* current one) or thrown away.                                            *)
(***************************************************************************)
\* what the call returned or threw reaches the state; the fibers of the
\* previous chain carry what the call wrote to them
Returned(shouldTrackSideEffects, child, r) ==
  /\ fibers' = r.fibers
  /\ returnFiber' = [r.parent EXCEPT !.child = r.firstChild]
  /\ newChild' = child
  /\ tracked' = shouldTrackSideEffects
  /\ thrown' = r.thrown
  /\ rpc' = IF r.thrown = NoThrow THEN "reconciled" ELSE "thrown"
  /\ currentChildren' = previousAfter(currentChildren, r.fibers)

\* workInProgress.child = reconcileChildFibers(workInProgress, current.child,
\* nextChildren): the assignment does not happen when the call throws
Reconciled(shouldTrackSideEffects, child, mode) ==
  Returned(shouldTrackSideEffects, child,
           reconcileChildFibers(shouldTrackSideEffects,
                                [NoReturnFiber EXCEPT !.mode = mode],
                                currentChildren, CurrentFirstChild, child))

ReconcileChildFibers(child, mode) ==
  /\ rpc = "idle"
  /\ Reconciled(TRUE, child, mode)
  /\ UNCHANGED <<qvars, hvars>>

\* the reconciler of a parent that has no current fiber
MountChildFibers(child, mode) ==
  /\ rpc = "idle"
  /\ currentChildren = <<>>
  /\ Reconciled(FALSE, child, mode)
  /\ UNCHANGED <<qvars, hvars>>

\* a chain whose first fiber throws in its begin phase is never committed
CommitChildren ==
  /\ rpc = "reconciled"
  /\ \A id \in Range(ResultChain) : fibers[id].tag # Throw
  /\ currentChildren' =
       [i \in 1..Len(ResultChain) |->
          LET f == fibers[ResultChain[i]]
          IN  [key |-> f.key, tag |-> f.tag, elementType |-> f.elementType,
               index |-> f.index,
               sibling |-> IF i < Len(ResultChain) THEN i + 1 ELSE NULL]]
  /\ returnFiber' = NoReturnFiber
  /\ fibers' = <<>>
  /\ newChild' = EmptyNode
  /\ tracked' = TRUE
  /\ thrown' = NoThrow
  /\ rpc' = "idle"
  /\ UNCHANGED <<qvars, hvars>>

DiscardChildren ==
  /\ rpc \in {"reconciled", "thrown"}
  /\ thrown' = NoThrow
  /\ returnFiber' = NoReturnFiber
  /\ fibers' = <<>>
  /\ newChild' = EmptyNode
  /\ tracked' = TRUE
  /\ rpc' = "idle"
  /\ UNCHANGED currentChildren
  /\ UNCHANGED <<qvars, hvars>>

NextChild ==
  \/ \E child \in NewChildInputs : \E mode \in ModesFor(child) :
        ReconcileChildFibers(child, mode)
  \/ \E child \in NewChildInputs : \E mode \in ModesFor(child) :
        MountChildFibers(child, mode)
  \/ CommitChildren
  \/ DiscardChildren

(***************************************************************************)
(* cloneChildFibers: the parent bails out and keeps its children, which    *)
(* get work-in-progress counterparts.  Before the parent's children are    *)
(* reconciled its child pointer is the one createWorkInProgress copied     *)
(* from the current parent; afterwards it is the chain the reconciler      *)
(* returned.                                                               *)
(***************************************************************************)
ResumingError == "Resuming work not yet implemented."

\* the chain a pass built, as the fibers a later createWorkInProgress reads
chainView(fs, ids) ==
  [i \in 1..Len(ids) |->
     LET f == fs[ids[i]]
     IN  [key |-> f.key, tag |-> f.tag, elementType |-> f.elementType,
          index |-> f.index,
          sibling |-> IF i < Len(ids) THEN i + 1 ELSE NULL]]

\* the error is raised whatever the child pointers are
resumesAlways(current, workInProgressChild, currentChild) == current

\* current !== null && workInProgress.child !== current.child
resumes(current, workInProgressChild, currentChild) ==
  current /\ workInProgressChild # currentChild

RECURSIVE cloneSiblings(_, _, _)

\* the loop over currentChild.sibling: the clone at position n of the new chain
\* and those after it; the last clone's sibling is null
cloneSiblings(chain, currentChild, n) ==
  LET next == siblingOf(chain, currentChild)
      clone == [setReturn(createWorkInProgress(chain, currentChild)) EXCEPT
                  !.sibling = IF next # NULL THEN n + 1 ELSE NULL]
  IN  IF next # NULL
        THEN <<clone>> \o cloneSiblings(chain, next, n + 1)
        ELSE <<clone>>

\* a child pointer: the chain it points into and the position there
NullChild == <<"null", NULL>>

\* [thrown, fibers, child]: what is raised, the fibers made and the parent's
\* child pointer (a position of fibers) when the call returns; child is
\* "kept" when the pointer is not written
cloneChildFibers(current, chain, workInProgressChild, currentChild) ==
  IF resumes(current, workInProgressChild, currentChild)
    THEN [thrown |-> ResumingError, fibers |-> <<>>, child |-> "kept"]
    ELSE IF workInProgressChild = NullChild
      THEN [thrown |-> NoThrow, fibers |-> <<>>, child |-> "kept"]
      ELSE [thrown |-> NoThrow,
            fibers |-> cloneSiblings(chain, workInProgressChild[2], 1),
            child |-> 1]

\* current.child, and workInProgress.child: the pointer createWorkInProgress
\* copied from the current parent until the children are reconciled, then the
\* chain the reconciler returned (ChildChain, from its first fiber)
CurrentChild ==
  IF currentChildren = <<>> THEN NullChild ELSE <<"current", 1>>
WorkInProgressChild ==
  IF rpc = "idle"
    THEN CurrentChild
    ELSE IF returnFiber.child = NULL THEN NullChild ELSE <<"workInProgress", 1>>
ChildChain ==
  IF rpc = "idle" THEN currentChildren ELSE chainView(fibers, ResultChain)

\* bailoutOnAlreadyFinishedWork calls cloneChildFibers(current, workInProgress);
\* current is FALSE for a parent that has no current fiber.  After the call
\* currentChildren holds the chain the new fibers are counterparts of.
CloneChildFibers(current) ==
  /\ rpc \in {"idle", "reconciled"}
  /\ rpc = "reconciled" => current = tracked
  /\ currentChildren # <<>> => current
  /\ LET r == cloneChildFibers(current, ChildChain, WorkInProgressChild, CurrentChild)
     IN  /\ thrown' = r.thrown
         /\ rpc' = IF r.thrown = NoThrow THEN "cloned" ELSE "cloneThrown"
         /\ IF r.fibers = <<>>
              THEN UNCHANGED <<fibers, returnFiber, currentChildren>>
              ELSE /\ fibers' = r.fibers
                   /\ returnFiber' = [returnFiber EXCEPT !.child = r.child]
                   /\ currentChildren' = ChildChain
  /\ UNCHANGED <<newChild, tracked>>
  /\ UNCHANGED <<qvars, hvars>>

\* the pass ends: the clones become the current chain, or the error unwinds
EndClone ==
  /\ rpc \in {"cloned", "cloneThrown"}
  /\ currentChildren' =
       IF rpc = "cloned" /\ fibers # <<>> /\ returnFiber.child # NULL
         THEN chainView(fibers, ResultChain)
         ELSE currentChildren
  /\ returnFiber' = NoReturnFiber
  /\ fibers' = <<>>
  /\ newChild' = EmptyNode
  /\ tracked' = TRUE
  /\ thrown' = NoThrow
  /\ rpc' = "idle"
  /\ UNCHANGED <<qvars, hvars>>

\* mountChildFibers is createChildReconciler(false): the reconciler without
\* effect tracking, here given any current chain (React itself passes null)
MountOverChildren(child, mode) ==
  /\ rpc = "idle"
  /\ currentChildren # <<>>
  /\ Reconciled(FALSE, child, mode)
  /\ UNCHANGED <<qvars, hvars>>

\* the descriptions of a parent that may bail out or mount over a chain
ParentInputs ==
  {EmptyNode, TextNode, Element("a", "div"), Element("a", "span")}
    \cup {ArrayNode(s) : s \in Arrays}

NextParent ==
  \/ \E child \in ParentInputs : ReconcileChildFibers(child, ConcurrentMode)
  \/ \E child \in ParentInputs : MountChildFibers(child, ConcurrentMode)
  \/ \E child \in ParentInputs : MountOverChildren(child, ConcurrentMode)
  \/ CommitChildren
  \/ DiscardChildren
  \/ \E current \in BOOLEAN : CloneChildFibers(current)
  \/ EndClone

(***************************************************************************)
(* The hydration context (ReactFiberHydrationContext.old.js).              *)
(*                                                                         *)
(* dom[i] = [type, next, first] is a hydratable instance: its type, its    *)
(* next hydratable sibling and its first hydratable child.  tree[f] =      *)
(* [tag, type, return, child, sibling, stateNode, flags, deletions, mode]  *)
(* is a fiber; deletions holds the instances of the deletion fibers        *)
(* deleteHydratableInstance pushes.  The root fiber is the last of tree.   *)
(***************************************************************************)
\* the most children of the container and of the root, and of one of those
MaxDomTop == 2
MaxDomKids == 2
MaxRenderTop == 2
MaxRenderKids == 1

HostRoot == "HostRoot"
SuspenseComponent == "SuspenseComponent"
Hydrating == "Hydrating"
DidCapture == "DidCapture"

\* a node with its children, before it is laid out in a heap
Shapes(kidTypes, maxTop, maxKids) ==
  SeqsUpTo({[type |-> "text", kids |-> <<>>]}
             \cup {[type |-> t, kids |-> k] :
                     t \in {"div", "body", "suspense"}, k \in SeqsUpTo(kidTypes, maxKids)},
           maxTop)

RECURSIVE Offset(_, _)

\* where the children of the i-th top-level node start in the heap
Offset(top, i) ==
  IF i = 1 THEN Len(top) ELSE Offset(top, i - 1) + Len(top[i - 1].kids)

\* the heap of a shape: [type, parent, next, first] of each node
Layout(top) ==
  LET total == Offset(top, Len(top) + 1)
      owner(id) == CHOOSE i \in 1..Len(top) :
                     Offset(top, i) < id /\ id <= Offset(top, i) + Len(top[i].kids)
  IN  [id \in 1..total |->
         IF id <= Len(top)
           THEN [type |-> top[id].type, parent |-> NULL,
                 next |-> IF id < Len(top) THEN id + 1 ELSE NULL,
                 first |-> IF top[id].kids # <<>> THEN Offset(top, id) + 1 ELSE NULL]
           ELSE [type |-> top[owner(id)].kids[id - Offset(top, owner(id))],
                 parent |-> owner(id),
                 next |-> IF id < Offset(top, owner(id)) + Len(top[owner(id)].kids)
                            THEN id + 1 ELSE NULL,
                 first |-> NULL]]

\* the tag of the fiber made for an element of the type
TagOf(type) ==
  CASE type = "text" -> HostText
    [] type = "suspense" -> SuspenseComponent
    [] OTHER -> HostComponent

\* the fibers of an element tree under a root; the children of the root
\* carry the Hydrating mark; dehydrated is memoizedState.dehydrated
FibersOf(top, mode) ==
  LET nodes == Layout(top)
      root == Len(nodes) + 1
  IN  [f \in 1..root |->
         IF f = root
           THEN [tag |-> HostRoot, type |-> NoType, return |-> NULL,
                 child |-> IF top # <<>> THEN 1 ELSE NULL, sibling |-> NULL,
                 stateNode |-> NULL, dehydrated |-> NULL, flags |-> NoFlags,
                 deletions |-> <<>>, mode |-> mode]
           ELSE [tag |-> TagOf(nodes[f].type),
                 type |-> nodes[f].type,
                 return |-> IF nodes[f].parent = NULL THEN root ELSE nodes[f].parent,
                 child |-> nodes[f].first, sibling |-> nodes[f].next,
                 stateNode |-> NULL, dehydrated |-> NULL,
                 flags |-> IF nodes[f].parent = NULL THEN {Hydrating} ELSE NoFlags,
                 deletions |-> <<>>, mode |-> mode]]

InitHydration ==
  /\ dom = <<>>
  /\ tree = <<>>
  /\ hydrationParentFiber = NULL
  /\ nextHydratableInstance = NULL
  /\ isHydrating = FALSE
  /\ workInProgress = NULL
  /\ hpc = "idle"
  /\ attempted = <<>>
  /\ retried = NULL

(***************************************************************************)
(* The host configuration.                                                 *)
(***************************************************************************)
getFirstHydratableChildWithinContainer(instances) ==
  IF instances # <<>> THEN 1 ELSE NULL
getFirstHydratableChild(instances, instance) == instances[instance].first
getNextHydratableSibling(instances, instance) == instances[instance].next

\* an element claims an element of its type, a text a text
canHydrateInstance(instances, instance, type) ==
  IF instances[instance].type = type THEN instance ELSE NULL
canHydrateTextInstance(instances, instance) ==
  IF instances[instance].type = "text" THEN instance ELSE NULL

\* a suspense instance stands for the markup of a boundary: its content are
\* its children, the node after its end is its sibling
canHydrateSuspenseInstance(instances, instance) ==
  IF instances[instance].type = "suspense" THEN instance ELSE NULL
getFirstHydratableChildWithinSuspenseInstance(instances, instance) ==
  instances[instance].first
getNextHydratableInstanceAfterSuspenseInstance(instances, instance) ==
  instances[instance].next

shouldDeleteUnhydratedTailInstances(parentType) == parentType # "body"
shouldSetTextContent(type) == FALSE

(***************************************************************************)
(* The functions of the context work on h = [tree, hydrationParentFiber,   *)
(* nextHydratableInstance, isHydrating, thrown, attempted].                *)
(***************************************************************************)
HydrationMismatch == "Hydration failed"

Context ==
  [tree |-> tree, hydrationParentFiber |-> hydrationParentFiber,
   nextHydratableInstance |-> nextHydratableInstance, isHydrating |-> isHydrating,
   thrown |-> NoThrow, attempted |-> <<>>]

enterHydrationState(instances, h, fiber) ==
  [h EXCEPT !.nextHydratableInstance = getFirstHydratableChildWithinContainer(instances),
            !.hydrationParentFiber = fiber,
            !.isHydrating = TRUE]

deleteOnCurrentParent(h, parent, instance) ==
  [h EXCEPT !.tree[h.hydrationParentFiber].deletions = Append(@, instance),
            !.tree[h.hydrationParentFiber].flags = @ \cup {ChildDeletion}]

deleteHydratableInstance(h, parent, instance) ==
  [h EXCEPT !.tree[parent].deletions = Append(@, instance),
            !.tree[parent].flags =
               IF h.tree[parent].deletions = <<>> THEN @ \cup {ChildDeletion} ELSE @]

insertNonHydratedKeepsMark(h, parent, fiber) ==
  [h EXCEPT !.tree[fiber].flags = @ \cup {Placement}]

insertNonHydratedInstance(h, parent, fiber) ==
  [h EXCEPT !.tree[fiber].flags = (@ \ {Hydrating}) \cup {Placement}]

\* the cursor descends into the children of a claimed text instance
descendsIntoLeaf(instances, tag, instance) == getFirstHydratableChild(instances, instance)

\* nextHydratableInstance after the fiber has claimed the instance
cursorAfterClaim(instances, tag, instance) ==
  IF tag = HostComponent THEN getFirstHydratableChild(instances, instance) ELSE NULL

\* [ok, h]: whether the fiber claimed the instance, and the context after
tryHydrate(instances, h, fiber, nextInstance) ==
  LET tried == [h EXCEPT !.attempted = Append(@, nextInstance)]
      tag == h.tree[fiber].tag
      instance ==
        CASE tag = HostComponent ->
               canHydrateInstance(instances, nextInstance, h.tree[fiber].type)
          [] tag = HostText -> canHydrateTextInstance(instances, nextInstance)
          [] tag = SuspenseComponent -> canHydrateSuspenseInstance(instances, nextInstance)
          [] OTHER -> NULL
  IN  IF instance = NULL
        THEN [ok |-> FALSE, h |-> tried]
        ELSE [ok |-> TRUE,
              h |-> [tried EXCEPT
                       !.tree[fiber].stateNode =
                          IF tag = SuspenseComponent THEN @ ELSE instance,
                       !.tree[fiber].dehydrated =
                          IF tag = SuspenseComponent THEN instance ELSE @,
                       !.hydrationParentFiber = fiber,
                       !.nextHydratableInstance =
                          cursorAfterClaim(instances, tag, instance)]]

shouldClientRenderOnMismatch(h, fiber) ==
  h.tree[fiber].mode = ConcurrentMode /\ DidCapture \notin h.tree[fiber].flags

throwOnHydrationMismatch(h) == [h EXCEPT !.thrown = HydrationMismatch]

\* nothing to hydrate: the fiber becomes an insertion and hydration stops
fallBackToInsertion(h, fiber) ==
  [insertNonHydratedInstance(h, h.hydrationParentFiber, fiber) EXCEPT
     !.isHydrating = FALSE,
     !.hydrationParentFiber = fiber]

retriesBeforeThrow(h, fiber) == FALSE

\* the test made once the first attempt has failed
throwsAfterFirstAttempt(h, fiber) == shouldClientRenderOnMismatch(h, fiber)

tryToClaimNextHydratableInstance(instances, h, fiber) ==
  IF ~h.isHydrating
    THEN h
  ELSE IF h.nextHydratableInstance = NULL
    THEN IF shouldClientRenderOnMismatch(h, fiber)
           THEN throwOnHydrationMismatch(h)
           ELSE fallBackToInsertion(h, fiber)
  ELSE LET firstAttemptedInstance == h.nextHydratableInstance
           first == tryHydrate(instances, h, fiber, firstAttemptedInstance)
       IN  IF first.ok
             THEN first.h
           ELSE IF throwsAfterFirstAttempt(first.h, fiber)
             THEN throwOnHydrationMismatch(first.h)
           ELSE LET nextInstance == getNextHydratableSibling(instances,
                                                             firstAttemptedInstance)
                    prevHydrationParentFiber == first.h.hydrationParentFiber
                    second == tryHydrate(instances, first.h, fiber, nextInstance)
                IN  IF nextInstance = NULL
                      THEN fallBackToInsertion(first.h, fiber)
                    ELSE IF ~second.ok
                      THEN fallBackToInsertion(second.h, fiber)
                      ELSE deleteHydratableInstance(second.h, prevHydrationParentFiber,
                                                    firstAttemptedInstance)

RECURSIVE popSkipsBoundary(_, _)

\* a boundary is passed over like a component that is no host
popSkipsBoundary(fibers_, parent) ==
  IF parent # NULL /\ fibers_[parent].tag \notin {HostComponent, HostRoot}
    THEN popSkipsBoundary(fibers_, fibers_[parent].return)
    ELSE parent

RECURSIVE popToNextHostParentFrom(_, _)

popToNextHostParentFrom(fibers_, parent) ==
  IF parent # NULL /\ fibers_[parent].tag \notin {HostComponent, HostRoot, SuspenseComponent}
    THEN popToNextHostParentFrom(fibers_, fibers_[parent].return)
    ELSE parent

popToNextHostParent(h, fiber) ==
  [h EXCEPT !.hydrationParentFiber = popToNextHostParentFrom(h.tree, h.tree[fiber].return)]

deleteFirstOfTail(instances, h, fiber, nextInstance) ==
  IF nextInstance = NULL THEN h ELSE deleteHydratableInstance(h, fiber, nextInstance)

RECURSIVE deleteTail(_, _, _, _)

\* while (nextInstance) { deleteHydratableInstance(fiber, nextInstance); ... }
deleteTail(instances, h, fiber, nextInstance) ==
  IF nextInstance = NULL
    THEN h
    ELSE deleteTail(instances, deleteHydratableInstance(h, fiber, nextInstance), fiber,
                    getNextHydratableSibling(instances, nextInstance))

\* the fibers whose unhydrated tail is left alone
sparesTail(h, fiber) ==
  \/ h.tree[fiber].tag = HostRoot
  \/ /\ h.tree[fiber].tag = HostComponent
     /\ \/ ~shouldDeleteUnhydratedTailInstances(h.tree[fiber].type)
        \/ shouldSetTextContent(h.tree[fiber].type)

\* the cursor stays at the instance of the boundary
staysAtBoundary(instances, h, fiber) == h.tree[fiber].dehydrated

\* the boundary reaches this call with its dehydrated instance
skipPastDehydratedSuspenseInstance(instances, h, fiber) ==
  getNextHydratableInstanceAfterSuspenseInstance(instances, h.tree[fiber].dehydrated)

\* [h, hydrated]: the context after, and the value returned
popHydrationState(instances, h, fiber) ==
  IF fiber # h.hydrationParentFiber
    THEN [h |-> h, hydrated |-> FALSE]
  ELSE IF ~h.isHydrating
    THEN [h |-> [popToNextHostParent(h, fiber) EXCEPT !.isHydrating = TRUE],
          hydrated |-> FALSE]
  ELSE IF ~sparesTail(h, fiber) /\ h.nextHydratableInstance # NULL
            /\ shouldClientRenderOnMismatch(h, fiber)
    THEN [h |-> throwOnHydrationMismatch(h), hydrated |-> FALSE]
  ELSE LET swept == IF ~sparesTail(h, fiber)
                      THEN deleteTail(instances, h, fiber, h.nextHydratableInstance)
                      ELSE h
           popped == popToNextHostParent(swept, fiber)
       IN  [h |-> [popped EXCEPT !.nextHydratableInstance =
                      IF popped.tree[fiber].tag = SuspenseComponent
                        THEN skipPastDehydratedSuspenseInstance(instances, popped, fiber)
                        ELSE IF popped.hydrationParentFiber # NULL
                          THEN getNextHydratableSibling(instances,
                                                        popped.tree[fiber].stateNode)
                          ELSE NULL],
            hydrated |-> TRUE]

resetHydrationState(h) ==
  [h EXCEPT !.hydrationParentFiber = NULL, !.nextHydratableInstance = NULL,
            !.isHydrating = FALSE]

reenterHydrationStateFromDehydratedSuspenseInstance(instances, h, fiber, suspenseInstance) ==
  [h EXCEPT !.nextHydratableInstance =
               getFirstHydratableChildWithinSuspenseInstance(instances, suspenseInstance),
            !.hydrationParentFiber = fiber,
            !.isHydrating = TRUE]

\* the boundaries of the fibers lose their dehydrated instance: they are
\* rendered afresh
clientRendered(fibers_, boundaries) ==
  [f \in 1..Len(fibers_) |->
     IF f \in boundaries THEN [fibers_[f] EXCEPT !.dehydrated = NULL] ELSE fibers_[f]]

(***************************************************************************)
(* Actions: the work loop begins a fiber (the root enters hydration, a     *)
(* host fiber tries to claim), goes on to its child, and completes the     *)
(* fibers that have no child left to begin (a host fiber pops).            *)
(***************************************************************************)
Assign(h) ==
  /\ tree' = h.tree
  /\ hydrationParentFiber' = h.hydrationParentFiber
  /\ nextHydratableInstance' = h.nextHydratableInstance
  /\ isHydrating' = h.isHydrating
  /\ attempted' = h.attempted

\* hydrateRoot(container, element): the markup and the tree to render
HydrateRoot(instances, top, mode) ==
  /\ hpc = "idle"
  /\ dom' = Layout(instances)
  /\ tree' = FibersOf(top, mode)
  /\ workInProgress' = Len(FibersOf(top, mode))
  /\ hpc' = "begin"
  /\ UNCHANGED <<hydrationParentFiber, nextHydratableInstance, isHydrating, attempted,
                 retried>>
  /\ UNCHANGED <<qvars, cvars>>

\* the children of a boundary that claimed its instance are left to a later pass
isDehydrated(fiber) == fiber.tag = SuspenseComponent /\ fiber.dehydrated # NULL

\* after beginWork: the child if there is one, else the fiber is completed
Begun(h) ==
  /\ Assign(h)
  /\ IF h.thrown # NoThrow
       THEN hpc' = "thrown" /\ UNCHANGED workInProgress
       ELSE IF h.tree[workInProgress].child # NULL /\ ~isDehydrated(h.tree[workInProgress])
         THEN hpc' = "begin" /\ workInProgress' = h.tree[workInProgress].child
         ELSE hpc' = "complete" /\ UNCHANGED workInProgress
  /\ UNCHANGED <<dom, retried>>
  /\ UNCHANGED <<qvars, cvars>>

EnterHydrationState ==
  /\ hpc = "begin"
  /\ tree[workInProgress].tag = HostRoot
  /\ Begun(enterHydrationState(dom, Context, workInProgress))

TryToClaimNextHydratableInstance ==
  /\ hpc = "begin"
  /\ tree[workInProgress].tag \in {HostComponent, HostText, SuspenseComponent}
  /\ Begun(tryToClaimNextHydratableInstance(dom, Context, workInProgress))

\* completeWork, then the sibling is begun or the parent completed; the pass
\* that re-entered a boundary ends when the boundary is completed: the
\* boundary is hydrated and the hydration state reset
PopHydrationState ==
  /\ hpc = "complete"
  /\ LET h == popHydrationState(dom, Context, workInProgress).h
     IN  IF h.thrown # NoThrow
           THEN /\ Assign(h)
                /\ hpc' = "thrown"
                /\ UNCHANGED <<workInProgress, retried>>
         ELSE IF workInProgress = retried
           THEN /\ Assign([resetHydrationState(h) EXCEPT
                             !.tree = clientRendered(h.tree, {retried})])
                /\ hpc' = "done"
                /\ retried' = NULL
                /\ UNCHANGED workInProgress
           ELSE /\ Assign(h)
                /\ UNCHANGED retried
                /\ IF tree[workInProgress].sibling # NULL
                     THEN hpc' = "begin" /\ workInProgress' = tree[workInProgress].sibling
                     ELSE IF tree[workInProgress].return # NULL
                       THEN /\ hpc' = "complete"
                            /\ workInProgress' = tree[workInProgress].return
                       ELSE hpc' = "done" /\ UNCHANGED workInProgress
  /\ UNCHANGED dom
  /\ UNCHANGED <<qvars, cvars>>

\* the pass that threw is unwound: what it was hydrating, the root or the
\* boundary it had re-entered, is rendered afresh
ResetHydrationState ==
  /\ hpc = "thrown"
  /\ Assign([resetHydrationState(Context) EXCEPT
               !.tree = clientRendered(tree, IF retried = NULL THEN 1..Len(tree)
                                             ELSE {retried})])
  /\ hpc' = "done"
  /\ retried' = NULL
  /\ UNCHANGED <<dom, workInProgress>>
  /\ UNCHANGED <<qvars, cvars>>

\* a later pass hydrates the content of a boundary left dehydrated
ReenterHydrationState(fiber) ==
  /\ hpc = "done"
  /\ isDehydrated(tree[fiber])
  /\ Assign([reenterHydrationStateFromDehydratedSuspenseInstance(
                dom, Context, fiber, tree[fiber].dehydrated) EXCEPT !.attempted = <<>>])
  /\ retried' = fiber
  /\ IF tree[fiber].child # NULL
       THEN hpc' = "begin" /\ workInProgress' = tree[fiber].child
       ELSE hpc' = "complete" /\ workInProgress' = fiber
  /\ UNCHANGED dom
  /\ UNCHANGED <<qvars, cvars>>

NextHydration ==
  \/ /\ hpc = "idle"
     /\ \E instances \in Shapes({"div", "text"}, MaxDomTop, MaxDomKids) :
          \E top \in Shapes({"div", "text"}, MaxRenderTop, MaxRenderKids) :
             \E mode \in {ConcurrentMode, NoMode} : HydrateRoot(instances, top, mode)
  \/ EnterHydrationState
  \/ TryToClaimNextHydratableInstance
  \/ PopHydrationState
  \/ ResetHydrationState
  \/ \E fiber \in 1..Len(tree) : ReenterHydrationState(fiber)

(***************************************************************************)
(* The specifications: the update queue of one fiber, the children of one  *)
(* parent, and the hydration of one root.                                  *)
(***************************************************************************)
Init == InitQueue /\ InitChild /\ InitHydration

SpecHydration == Init /\ [][NextHydration]_vars

SpecQueue == Init /\ [][NextQueue]_vars

SpecChild == Init /\ [][NextChild]_vars

SpecCapture == Init /\ [][NextCapture]_vars

\* the child reconcilers of a parent that may bail out and clone its children
SpecParent == Init /\ [][NextParent]_vars

(***************************************************************************)
(* Properties of the child reconciler.                                     *)
(***************************************************************************)
\* the reconciler returned the children of the description (nothing was thrown)
ReconcileDone ==
  rpc = "reconciled" /\ \A id \in 1..Len(fibers) : fibers[id].tag # Throw

RECURSIVE Unwrapped(_)

\* the child a lazy value or a thenable stands for
Unwrapped(child) ==
  IF isWrapped(child) /\ unwrap(child).thrown = NoThrow
    THEN Unwrapped(unwrap(child).value)
    ELSE child

RECURSIVE TopLevel(_)

\* the description the reconciler dispatches on
TopLevel(child) ==
  LET unwrapped == unwrapTopLevelFragment(child)
  IN  IF isWrapped(unwrapped) /\ unwrap(unwrapped).thrown = NoThrow
        THEN TopLevel(unwrap(unwrapped).value)
        ELSE unwrapped

\* the items the reconciler was given: those of the array or yielded by the
\* iterable, or the one child
NewItems ==
  LET child == TopLevel(newChild)
  IN  IF child.kind \in {"array", "iterable"}
        THEN [j \in 1..Len(child.children) |-> Unwrapped(child.children[j])]
        ELSE <<child>>

IsArrayPass == TopLevel(newChild).kind = "array"
IsSinglePass == TopLevel(newChild).kind = "element"

PrevPositions == 1..Len(currentChildren)
Built == Range(ResultChain)
Deleted == Range(returnFiber.deletions)
Reused == {fibers[id].alternate : id \in Built} \ {NULL}

\* the fibers built for the item at position j of NewItems
ProducedFor(j) == {id \in Built : fibers[id].index = j - 1}

ItemsWithKey(key) ==
  {j \in 1..Len(NewItems) : NewItems[j].kind = "element" /\ NewItems[j].key = key}
PrevWithKey(key) == {p \in PrevPositions : currentChildren[p].key = key}

NoDuplicates(s) == \A i, j \in 1..Len(s) : i < j => s[i] # s[j]

ExplicitKeysDistinct(chain) ==
  \A p, q \in 1..Len(chain) :
     (p < q /\ chain[p].key # NoKey) => chain[p].key # chain[q].key

KeyedStabilityFor(uniqueKeys) ==
  ReconcileDone =>
    \A j \in 1..Len(NewItems) : \A p \in PrevPositions :
       LET X == NewItems[j]
       IN  (/\ X.kind = "element"
            /\ X.key # NoKey
            /\ currentChildren[p].key = X.key
            /\ isCompatible(currentChildren[p], X)
            /\ uniqueKeys => (PrevWithKey(X.key) = {p} /\ ItemsWithKey(X.key) = {j}))
           => \E id \in ProducedFor(j) : fibers[id].alternate = p

\* C5 as stated: whatever the previous chain and the new description, an item
\* with the explicit key of a previous sibling and a compatible type gets that
\* sibling's work-in-progress counterpart.
KeyedStabilityAnyKeys == KeyedStabilityFor(FALSE)

\* C5: an item whose explicit key is carried by exactly one previous sibling
\* and by no other new item, and whose type is compatible with that sibling,
\* gets the sibling's work-in-progress counterpart (alternate is the sibling).
KeyedStability == KeyedStabilityFor(TRUE)

\* C5 witness: a keyed item found through the map at another position than its
\* previous sibling's, reused and marked as a move
KeyedStabilityWitness ==
  /\ ReconcileDone
  /\ IsArrayPass
  /\ ExplicitKeysDistinct(currentChildren)
  /\ \E j \in 1..Len(NewItems) : \E p \in PrevPositions : \E id \in ProducedFor(j) :
        /\ NewItems[j].key # NoKey
        /\ ItemsWithKey(NewItems[j].key) = {j}
        /\ currentChildren[p].key = NewItems[j].key
        /\ currentChildren[p].index < j - 1
        /\ fibers[id].alternate = p
        /\ Placement \in fibers[id].flags

SameKeysAndTypes(keys, type) ==
  /\ currentChildren =
       [i \in 1..3 |-> [key |-> keys[i], tag |-> HostComponent,
                        elementType |-> type, index |-> i - 1,
                        sibling |-> IF i < 3 THEN i + 1 ELSE NULL]]
  /\ newChild = ArrayNode(<<Element(keys[3], type), Element(keys[1], type),
                            Element(keys[2], type)>>)

\* previous order [A,B,C], new order [C,A,B]
IsRotation(keys, type) ==
  /\ ReconcileDone
  /\ tracked
  /\ Cardinality(Range(keys)) = 3
  /\ NoKey \notin Range(keys)
  /\ SameKeysAndTypes(keys, type)

PlacedKeys == {fibers[id].key : id \in {i \in Built : Placement \in fibers[i].flags}}

Rotations == [1..3 -> {"a", "b", "c", "d"}] \X {"div", "span"}

\* C6 as stated: reconciling [A,B,C] against [C,A,B] marks exactly C.
MoveMinimality ==
  \A r \in Rotations : IsRotation(r[1], r[2]) => PlacedKeys = {r[1][3]}

\* C6: reconciling previous order [A,B,C] against new order [C,A,B] (same keys
\* and types) reuses the three nodes and marks exactly A and B for placement;
\* C, the first new item, is not marked.
MoveMarksOvertaken ==
  \A r \in Rotations :
     IsRotation(r[1], r[2]) =>
       /\ PlacedKeys = {r[1][1], r[1][2]}
       /\ Reused = {1, 2, 3}
       /\ [i \in 1..Len(ResultChain) |-> fibers[ResultChain[i]].key]
            = <<r[1][3], r[1][1], r[1][2]>>

\* C6 witness: [a,b,c] was reconciled against [c,a,b]
MoveMarksOvertakenWitness ==
  /\ IsRotation(<<"a", "b", "c">>, "div")
  /\ Len(ResultChain) = 3
  /\ Placement \notin fibers[returnFiber.child].flags

KeyMatchesNoItem(p) ==
  currentChildren[p].key # NoKey /\ ItemsWithKey(currentChildren[p].key) = {}

DeletionCompletenessFor(distinctKeys) ==
  (ReconcileDone /\ tracked /\ (distinctKeys => ExplicitKeysDistinct(currentChildren))) =>
    /\ NoDuplicates(returnFiber.deletions)
    /\ \A p \in PrevPositions : KeyMatchesNoItem(p) => p \in Deleted

\* C7 as stated: whatever the keys of the previous chain, every previous
\* sibling whose key matches no new item is in the deletion list, once.
DeletionCompletenessAnyKeys == DeletionCompletenessFor(FALSE)

\* C7: for a previous chain whose explicit keys are distinct and any new
\* description, every previous sibling whose explicit key matches no new item
\* is in the parent's deletion list exactly once, no sibling is in it twice,
\* and the list holds exactly the siblings that were not reused.
DeletionCompleteness ==
  /\ DeletionCompletenessFor(TRUE)
  /\ (ReconcileDone /\ tracked /\ ExplicitKeysDistinct(currentChildren)) =>
        Deleted = PrevPositions \ Reused

\* C7 witness: the map phase ran on a chain of distinct keys and deleted a
\* sibling whose key no new item carries while reusing another one
DeletionCompletenessWitness ==
  /\ ReconcileDone
  /\ tracked
  /\ IsArrayPass
  /\ ExplicitKeysDistinct(currentChildren)
  /\ \E p, q \in PrevPositions :
        /\ p < q
        /\ KeyMatchesNoItem(p)
        /\ p \in Deleted
        /\ q \in Reused
        /\ \E id \in Built : fibers[id].alternate = q /\ fibers[id].index < p - 1

\* the previous chain holds host elements of one type with distinct explicit keys
UniquelyKeyedChain(type) ==
  /\ ExplicitKeysDistinct(currentChildren)
  /\ \A p \in PrevPositions :
        /\ currentChildren[p].tag = HostComponent
        /\ currentChildren[p].key # NoKey
        /\ currentChildren[p].elementType = type

\* the new items are the previous siblings but the first dropped ones, then
\* elements of the same type with new, distinct keys
DropsAndAppends(dropped, type) ==
  LET kept == Len(currentChildren) - dropped
  IN  /\ Len(NewItems) >= kept
      /\ \A j \in 1..Len(NewItems) :
            /\ NewItems[j].kind = "element"
            /\ NewItems[j].key # NoKey
            /\ NewItems[j].type = type
            /\ ItemsWithKey(NewItems[j].key) = {j}
            /\ IF j <= kept
                 THEN NewItems[j].key = currentChildren[dropped + j].key
                 ELSE PrevWithKey(NewItems[j].key) = {}

IsDropAppend(dropped, type) ==
  /\ ReconcileDone
  /\ tracked
  /\ IsArrayPass
  /\ dropped <= Len(currentChildren)
  /\ UniquelyKeyedChain(type)
  /\ DropsAndAppends(dropped, type)

\* C8: previous chain of uniquely keyed siblings of one type, new keyed
\* sequence made by dropping leading siblings and appending new keys: the
\* dropped siblings, and only they, are in the deletion list; each retained
\* sibling is reused and not marked for placement; each appended item is
\* created and marked for placement; the built chain is in the new order.
DropLeadingAppendNew ==
  \A dropped \in 0..MaxChildren : \A type \in {"div", "span"} :
     IsDropAppend(dropped, type) =>
       LET kept == Len(currentChildren) - dropped
       IN  /\ Deleted = 1..dropped
           /\ NoDuplicates(returnFiber.deletions)
           /\ Len(ResultChain) = Len(NewItems)
           /\ \A j \in 1..Len(ResultChain) :
                 LET f == fibers[ResultChain[j]]
                 IN  /\ f.key = NewItems[j].key
                     /\ f.index = j - 1
                     /\ IF j <= kept
                          THEN f.alternate = dropped + j /\ Placement \notin f.flags
                          ELSE f.alternate = NULL /\ Placement \in f.flags

\* C8 witness: previous [a,b,c] of type div, new [b,c,d]
DropLeadingAppendNewWitness ==
  /\ IsDropAppend(1, "div")
  /\ [p \in PrevPositions |-> currentChildren[p].key] = <<"a", "b", "c">>
  /\ [j \in 1..Len(NewItems) |-> NewItems[j].key] = <<"b", "c", "d">>
  /\ returnFiber.deletions = <<1>>

\* the first previous sibling whose key equals the single new item's key
FirstKeyMatch ==
  LET S == PrevWithKey(TopLevel(newChild).key)
  IN  IF S = {} THEN NULL ELSE CHOOSE p \in S : \A q \in S : p <= q

SingleMatched(compatible) ==
  /\ ReconcileDone
  /\ tracked
  /\ IsSinglePass
  /\ FirstKeyMatch # NULL
  /\ isCompatible(currentChildren[FirstKeyMatch], TopLevel(newChild)) = compatible

\* C9: single-item path, the sibling whose key equals the new item's key has
\* an incompatible type: every previous sibling is in the deletion list once
\* (those before the match one by one, the match and those after it
\* together), no previous node is reused, and the returned node is fresh and
\* marked for placement.
SingleTypeChange ==
  SingleMatched(FALSE) =>
    /\ returnFiber.deletions = [p \in PrevPositions |-> p]
    /\ Reused = {}
    /\ ResultChain = <<returnFiber.child>>
    /\ fibers[returnFiber.child].alternate = NULL
    /\ fibers[returnFiber.child].key = TopLevel(newChild).key
    /\ Placement \in fibers[returnFiber.child].flags

\* C9 witness: an unkeyed span replaced by an unkeyed div
SingleTypeChangeWitness ==
  /\ SingleMatched(FALSE)
  /\ currentChildren = <<[key |-> NoKey, tag |-> HostComponent,
                          elementType |-> "span", index |-> 0, sibling |-> NULL]>>
  /\ newChild = Element(NoKey, "div")
  /\ returnFiber.deletions = <<1>>

\* a second C9 case: the match is the second of three siblings
SingleTypeChangeInside ==
  /\ SingleMatched(FALSE)
  /\ Len(currentChildren) = 3
  /\ FirstKeyMatch = 2

BoundTo(fiber) ==
  IF fiber.tag = SuspenseComponent THEN fiber.dehydrated ELSE fiber.stateNode

\* a host fiber or a boundary is about to be begun while hydrating
ClaimBegins ==
  /\ hpc = "begin"
  /\ tree[workInProgress].tag \in {HostComponent, HostText, SuspenseComponent}
  /\ isHydrating

StrictMatching == shouldClientRenderOnMismatch(Context, workInProgress)

\* the fiber begun in this step ends bound to nothing and marked as an insertion
BecomesInsertion ==
  /\ tree'[workInProgress].stateNode = NULL
  /\ Hydrating \notin tree'[workInProgress].flags
  /\ Placement \in tree'[workInProgress].flags
  /\ hpc' # "thrown"

\* C12 as stated: whenever a fiber is begun while hydrating and no instance
\* is left at the cursor, it is bound to no instance, loses Hydrating and
\* gets Placement
HydrationFallbackAnyMode ==
  [][ClaimBegins /\ nextHydratableInstance = NULL => BecomesInsertion]_vars

\* C12: whenever a fiber is begun while hydrating, no instance is left at the
\* cursor and the fiber does not demand strict matching, it is bound to no
\* instance, loses Hydrating and gets Placement; so does each later fiber
\* begun while hydrating with the cursor still exhausted
HydrationFallback ==
  [][ClaimBegins /\ nextHydratableInstance = NULL /\ ~StrictMatching
       => BecomesInsertion]_vars

\* C12 witness: the second child of the root has become an insertion after
\* the first, neither through an attempt, with the cursor still exhausted
HydrationFallbackWitness ==
  /\ hpc = "complete"
  /\ workInProgress = 2
  /\ tree[2].return = Len(tree)
  /\ attempted = <<>>
  /\ nextHydratableInstance = NULL
  /\ \A f \in {1, 2} : /\ Placement \in tree[f].flags
                       /\ Hydrating \notin tree[f].flags
                       /\ tree[f].stateNode = NULL

\* a host fiber is about to be begun while hydrating, and the instance at
\* the cursor is not one it can claim
MismatchAtCursor ==
  /\ ClaimBegins
  /\ nextHydratableInstance # NULL
  /\ ~tryHydrate(dom, Context, workInProgress, nextHydratableInstance).ok

\* the instance after the cursor is one the fiber can claim
FollowingMatches ==
  /\ getNextHydratableSibling(dom, nextHydratableInstance) # NULL
  /\ tryHydrate(dom, Context, workInProgress,
                getNextHydratableSibling(dom, nextHydratableInstance)).ok

\* the fiber is bound to the instance after the cursor and the instance at
\* the cursor is deleted on the hydration parent of before the step
BoundToFollowing ==
  /\ BoundTo(tree'[workInProgress]) = getNextHydratableSibling(dom, nextHydratableInstance)
  /\ tree'[hydrationParentFiber].deletions =
        Append(tree[hydrationParentFiber].deletions, nextHydratableInstance)
  /\ ChildDeletion \in tree'[hydrationParentFiber].flags

MismatchEscalationAfterRetry ==
  [][ClaimBegins =>
       /\ hpc' = "thrown" => /\ StrictMatching
                             /\ MismatchAtCursor
                             /\ ~FollowingMatches
                             /\ Len(attempted') = 2
       /\ MismatchAtCursor /\ ~FollowingMatches /\ ~StrictMatching
            => BecomesInsertion]_vars

\* C14: beginning a fiber throws the mismatch error exactly when the fiber
\* demands strict matching and the cursor is exhausted or the instance at
\* the cursor does not match, and then no second instance has been tried;
\* a fiber that does not demand it and matches neither the instance at the
\* cursor nor the following one becomes an insertion, without an error
MismatchEscalation ==
  [][ClaimBegins =>
       /\ hpc' = "thrown" <=>
             StrictMatching /\ (nextHydratableInstance = NULL \/ MismatchAtCursor)
       /\ hpc' = "thrown" => Len(attempted') <= 1
       /\ MismatchAtCursor /\ ~FollowingMatches /\ ~StrictMatching
            => BecomesInsertion]_vars

\* C14 witness: the error was thrown for a fiber in concurrent mode after one
\* attempt, on an instance that has a following sibling
MismatchEscalationWitness ==
  /\ hpc = "thrown"
  /\ Len(attempted) = 1
  /\ getNextHydratableSibling(dom, attempted[1]) # NULL
  /\ tree[workInProgress].mode = ConcurrentMode
  /\ tree[workInProgress].stateNode = NULL
  /\ Placement \notin tree[workInProgress].flags

\* the hydration parent is about to be completed while hydrating
PopBegins ==
  /\ hpc = "complete"
  /\ isHydrating
  /\ workInProgress = hydrationParentFiber

RECURSIVE TailFrom(_)

\* the instance and its following siblings
TailFrom(instance) ==
  IF instance = NULL THEN <<>> ELSE <<instance>> \o TailFrom(dom[instance].next)

\* the sibling after the instance the completed fiber is bound to: for a
\* boundary the instance after its dehydrated instance, and none once the
\* pass that re-entered the boundary has reset the hydration state
AfterBound ==
  IF workInProgress = retried
    THEN NULL
  ELSE IF tree[workInProgress].tag = SuspenseComponent
    THEN getNextHydratableInstanceAfterSuspenseInstance(dom, tree[workInProgress].dehydrated)
  ELSE IF tree[workInProgress].stateNode = NULL
    THEN NULL
    ELSE getNextHydratableSibling(dom, tree[workInProgress].stateNode)

\* C15 as stated: completing the hydration parent while hydrating deletes
\* on it every instance left from the cursor on, and moves the cursor to the
\* sibling after the instance the fiber is bound to
SubtreeCompletionAnyFiber ==
  [][PopBegins =>
       /\ tree'[workInProgress].deletions =
             tree[workInProgress].deletions \o TailFrom(nextHydratableInstance)
       /\ nextHydratableInstance' = AfterBound]_vars

\* C15: completing the hydration parent while hydrating deletes on it every
\* instance left from the cursor on, unless the fiber is the root or a
\* component whose type keeps its unhydrated tail, which delete nothing, or
\* the fiber demands strict matching and an instance is left, which throws
\* the mismatch error; when nothing is thrown the cursor moves to the sibling
\* after the instance the fiber is bound to (to none for the root)
SubtreeCompletion ==
  [][PopBegins =>
       IF ~sparesTail(Context, workInProgress) /\ nextHydratableInstance # NULL
            /\ StrictMatching
         THEN /\ hpc' = "thrown"
              /\ tree'[workInProgress].deletions = tree[workInProgress].deletions
         ELSE /\ hpc' # "thrown"
              /\ tree'[workInProgress].deletions =
                    tree[workInProgress].deletions \o
                      (IF tree[workInProgress].tag = HostRoot
                            \/ tree[workInProgress].type = "body"
                         THEN <<>> ELSE TailFrom(nextHydratableInstance))
              /\ nextHydratableInstance' = AfterBound]_vars

\* C15 witness: the first child of the root has been completed, the two
\* instances left inside its instance are deleted on it, and the cursor is at
\* the sibling after its instance
SubtreeCompletionWitness ==
  /\ hpc = "begin"
  /\ workInProgress = 2
  /\ isHydrating
  /\ tree[1].stateNode = 1
  /\ Len(tree[1].deletions) = 2
  /\ nextHydratableInstance = 2

(***************************************************************************)
(* Claims about what a reconcile call throws and returns.                  *)
(***************************************************************************)
RECURSIVE RaisedByItem(_)

\* what handling one item of a description raises: an array inside an array
\* becomes a fragment and raises nothing now
RaisedByItem(item) ==
  CASE item.kind = "invalid" -> InvalidObjectError
    [] item.kind \in {"lazy", "thenable"} ->
         IF unwrap(item).thrown # NoThrow
           THEN unwrap(item).thrown
           ELSE RaisedByItem(unwrap(item).value)
    [] OTHER -> NoThrow

RECURSIVE RaisedBy(_)

\* what handling a description raises first: its items are handled in order
RaisedBy(child) ==
  CASE child.kind \in {"lazy", "thenable"} ->
         IF unwrap(child).thrown # NoThrow
           THEN unwrap(child).thrown
           ELSE RaisedBy(unwrap(child).value)
    [] child.kind \in {"array", "iterable"} ->
         LET raising == {i \in 1..Len(child.children) :
                           RaisedByItem(child.children[i]) # NoThrow}
         IN  IF raising = {}
               THEN NoThrow
               ELSE RaisedByItem(child.children[CHOOSE i \in raising :
                                                  \A j \in raising : i <= j])
    [] OTHER -> RaisedByItem(child)

\* the call returned one placeholder that throws x, linked to the parent
ReturnedPlaceholder(x) ==
  /\ rpc = "reconciled"
  /\ thrown = NoThrow
  /\ Len(ResultChain) = 1
  /\ fibers[returnFiber.child].tag = Throw
  /\ fibers[returnFiber.child].pendingProps = x
  /\ fibers[returnFiber.child].return = ParentLink
  /\ fibers[returnFiber.child].sibling = NULL

\* the call threw x to its caller and returned nothing
Propagated(x) ==
  /\ rpc = "thrown"
  /\ thrown = x
  /\ returnFiber.child = NULL
  /\ \A id \in 1..Len(fibers) : fibers[id].tag # Throw

\* C16: when the first thing a description raises is the error of an object
\* that is no child, at the top or inside an array, the call throws nothing
\* to its caller and returns one placeholder that carries the error and
\* whose return link is the parent, in place of the chain
ShapeError ==
  rpc # "idle" /\ RaisedBy(newChild) = InvalidObjectError
    => ReturnedPlaceholder(InvalidObjectError)

\* C16 witness: the object was the second item of an array, after an item
\* for which a fiber had been made, and the placeholder is all that is returned
ShapeErrorWitness ==
  /\ newChild.kind = "array"
  /\ Len(newChild.children) = 2
  /\ newChild.children[2].kind = "invalid"
  /\ Len(fibers) = 2
  /\ ReturnedPlaceholder(InvalidObjectError)

\* C17 as stated: SuspenseException leaves the call unchanged and makes no
\* placeholder; every other value raised is returned in a placeholder
SuspensionOnlyPropagated ==
  rpc # "idle" /\ RaisedBy(newChild) # NoThrow
    => IF RaisedBy(newChild) = SuspenseException
         THEN Propagated(SuspenseException)
         ELSE ReturnedPlaceholder(RaisedBy(newChild))

\* C17: SuspenseException, and a thenable raised under a parent that is not
\* in concurrent mode, leave the call unchanged and make no placeholder;
\* every other value raised is returned in a placeholder
SuspensionPropagated ==
  rpc # "idle" /\ RaisedBy(newChild) # NoThrow
    => IF \/ RaisedBy(newChild) = SuspenseException
          \/ RaisedBy(newChild) = ThrownThenable /\ returnFiber.mode = NoMode
         THEN Propagated(RaisedBy(newChild))
         ELSE ReturnedPlaceholder(RaisedBy(newChild))

\* C17 witness: the second item of an array suspended after a fiber had been
\* made for the first, and the suspension left the call
SuspensionPropagatedWitness ==
  /\ newChild.kind = "array"
  /\ Len(newChild.children) = 2
  /\ Len(fibers) = 1
  /\ Propagated(SuspenseException)

(***************************************************************************)
(* Claims about fresh fibers, text items and duplicate keys.               *)
(***************************************************************************)
\* the fibers the call made for items and that are no clones
Fresh ==
  {id \in 1..Len(fibers) : fibers[id].alternate = NULL /\ fibers[id].tag # Throw}

SlotKeyMatches(item, prev) ==
  CASE item.kind = "element" -> item.key = prev.key
    [] item.kind \in {"text", "array"} -> prev.key = NoKey
    [] OTHER -> FALSE

\* the forward scan reaches item j, a text, while at a previous fiber that
\* carries a key
TextFacesKeyed(j) ==
  /\ j <= Len(currentChildren)
  /\ NewItems[j].kind = "text"
  /\ currentChildren[j].key # NoKey
  /\ \A i \in 1..j : currentChildren[i].index = i - 1
  /\ \A i \in 1..(j - 1) : SlotKeyMatches(NewItems[i], currentChildren[i])

\* C19: a fiber made for a text item is never the clone of a previous fiber
\* with a key; when the forward scan reaches a text item at a previous fiber
\* with a key, the text gets a fresh fiber and the previous fiber is left to
\* the map, where a later item with its key and a compatible type, the only
\* holder of that key on either side, reuses it
TextNeverReusesKeyed ==
  ReconcileDone /\ IsArrayPass =>
    /\ \A j \in 1..Len(NewItems) : \A id \in ProducedFor(j) :
          NewItems[j].kind = "text" /\ fibers[id].alternate # NULL
            => /\ currentChildren[fibers[id].alternate].key = NoKey
               /\ currentChildren[fibers[id].alternate].tag = HostText
    /\ \A j \in 1..Len(NewItems) :
          TextFacesKeyed(j) =>
            /\ \A id \in ProducedFor(j) : fibers[id].alternate = NULL
            /\ \A m \in (j + 1)..Len(NewItems) :
                  /\ NewItems[m].kind = "element"
                  /\ NewItems[m].key = currentChildren[j].key
                  /\ isCompatible(currentChildren[j], NewItems[m])
                  /\ ItemsWithKey(NewItems[m].key) = {m}
                  /\ PrevWithKey(NewItems[m].key) = {j}
                  => \E id \in ProducedFor(m) : fibers[id].alternate = j

\* C19 witness: a text came first where the previous chain began with a keyed
\* fiber; the text is fresh and the second item reuses the keyed fiber
TextNeverReusesKeyedWitness ==
  /\ ReconcileDone
  /\ IsArrayPass
  /\ Len(NewItems) = 2
  /\ TextFacesKeyed(1)
  /\ \E id \in ProducedFor(1) : fibers[id].alternate = NULL /\ fibers[id].tag = HostText
  /\ \E id \in ProducedFor(2) : fibers[id].alternate = 1

\* the previous fibers sit at the indexes of their positions
DenseChain == \A p \in PrevPositions : currentChildren[p].index = p - 1

\* how many slots the forward scan goes past
ScanStop ==
  LET most == IF Len(NewItems) < Len(currentChildren)
                THEN Len(NewItems) ELSE Len(currentChildren)
  IN  CHOOSE s \in 0..most :
        /\ \A i \in 1..s : SlotKeyMatches(NewItems[i], currentChildren[i])
        /\ s < most => ~SlotKeyMatches(NewItems[s + 1], currentChildren[s + 1])

\* the previous siblings the map is built from that carry the key
MappedWithKey(key) == {p \in PrevWithKey(key) : p > ScanStop}

Largest(S) == CHOOSE x \in S : \A y \in S : y <= x
Smallest(S) == CHOOSE x \in S : \A y \in S : x <= y

\* a key is carried twice, by previous siblings or by items
HasDuplicateKey ==
  \/ ~ExplicitKeysDistinct(currentChildren)
  \/ \E j \in 1..Len(NewItems) :
        /\ NewItems[j].kind = "element"
        /\ NewItems[j].key # NoKey
        /\ ItemsWithKey(NewItems[j].key) # {j}

\* C20: with a key carried twice the call still returns a chain, unless the
\* description itself raises; and when the map is built from previous
\* siblings of which several carry one key, the first item the map is asked
\* for that key reuses the last of them if its type is compatible, and no
\* fiber of the pass is the clone of an earlier one
DuplicateKeyLaterWins ==
  /\ rpc # "idle" /\ HasDuplicateKey /\ RaisedBy(newChild) = NoThrow => ReconcileDone
  /\ (/\ ReconcileDone
      /\ IsArrayPass
      /\ DenseChain
      /\ ScanStop < Len(NewItems)
      /\ ScanStop < Len(currentChildren))
       => \A p \in PrevPositions :
            LET key == currentChildren[p].key
                users == {m \in ItemsWithKey(key) : m > ScanStop}
            IN  key # NoKey /\ Cardinality(MappedWithKey(key)) > 1 =>
                  /\ \A id \in Built :
                        fibers[id].alternate \in MappedWithKey(key)
                          => fibers[id].alternate = Largest(MappedWithKey(key))
                  /\ users # {}
                       /\ isCompatible(currentChildren[Largest(MappedWithKey(key))],
                                       NewItems[Smallest(users)])
                       => \E id \in ProducedFor(Smallest(users)) :
                            fibers[id].alternate = Largest(MappedWithKey(key))

\* C20 witness: two previous siblings carried one key, the scan stopped
\* before both, and an item with the key reuses the second of them
DuplicateKeyLaterWinsWitness ==
  /\ ReconcileDone
  /\ IsArrayPass
  /\ DenseChain
  /\ ScanStop = 0
  /\ Len(currentChildren) >= 2
  /\ currentChildren[1].key # NoKey
  /\ currentChildren[1].key = currentChildren[2].key
  /\ \E id \in Built : fibers[id].alternate = 2 /\ fibers[id].key = currentChildren[1].key

(***************************************************************************)
(* The shape of the chain a call returns.                                  *)
(***************************************************************************)
\* the fibers met by following sibling from the first child, one step more
\* than there are fibers
SiblingWalk == ChainFrom(fibers, returnFiber.child, Len(fibers) + 1)

\* C21: the chain a reconcile call returns is finite and acyclic: following
\* sibling from the first fiber reaches null without meeting a fiber twice, and
\* the index values strictly increase along it.
ChainWellFormed ==
  rpc = "reconciled" =>
    /\ NoDuplicates(SiblingWalk)
    /\ SiblingWalk # <<>> => fibers[SiblingWalk[Len(SiblingWalk)]].sibling = NULL
    /\ \A i \in 1..(Len(SiblingWalk) - 1) :
          fibers[SiblingWalk[i]].index < fibers[SiblingWalk[i + 1]].index

\* C21 witness: a chain of three fibers, the first a clone of the previous
\* fiber that stood last (its previous sibling link and index differ from the
\* new ones), the last a clone of a previous fiber that had a sibling.
ChainWellFormedWitness ==
  /\ rpc = "reconciled"
  /\ tracked
  /\ Len(SiblingWalk) = 3
  /\ fibers[SiblingWalk[1]].alternate = 3
  /\ currentChildren[3].index = 2
  /\ fibers[SiblingWalk[3]].alternate = 1
  /\ currentChildren[1].sibling = 2
  /\ fibers[SiblingWalk[3]].sibling = NULL
  /\ fibers[SiblingWalk[3]].index = 2

RECURSIVE HighWaterMarkFrom(_, _)

\* the placement rule read along a chain, from the mark lastPlacedIndex on
HighWaterMarkFrom(walk, lastPlacedIndex) ==
  IF walk = <<>>
    THEN TRUE
    ELSE LET fiber == fibers[Head(walk)]
         IN  IF fiber.alternate # NULL
               THEN LET oldIndex == currentChildren[fiber.alternate].index
                    IN  /\ (Placement \in fiber.flags) <=> (oldIndex < lastPlacedIndex)
                        /\ HighWaterMarkFrom(Tail(walk),
                             IF oldIndex > lastPlacedIndex THEN oldIndex
                             ELSE lastPlacedIndex)
               ELSE /\ Placement \in fiber.flags
                    /\ HighWaterMarkFrom(Tail(walk), lastPlacedIndex)

\* C25: with effect tracking on, the fibers of a child sequence are marked by
\* the high-water-mark rule: starting from 0, a reused fiber is marked for
\* placement exactly when its previous index is below the mark and raises the
\* mark to the larger of the two; a created fiber is marked and leaves the mark.
HighWaterMark ==
  (ReconcileDone /\ tracked /\ IsArrayPass) => HighWaterMarkFrom(ResultChain, 0)

\* C25 witness: over the previous chain [0, 1, 2] the sequence reuses the fiber
\* of index 2 (it stays, the mark becomes 2), creates a fiber (marked, the mark
\* stays 2) and reuses the fiber of index 1 (below the mark: marked).
HighWaterMarkWitness ==
  /\ ReconcileDone /\ tracked /\ IsArrayPass
  /\ Len(ResultChain) = 3
  /\ DenseChain
  /\ fibers[ResultChain[1]].alternate = 3
  /\ Placement \notin fibers[ResultChain[1]].flags
  /\ fibers[ResultChain[2]].alternate = NULL
  /\ Placement \in fibers[ResultChain[2]].flags
  /\ fibers[ResultChain[3]].alternate = 2
  /\ Placement \in fibers[ResultChain[3]].flags

(***************************************************************************)
(* The iterator path against the array path.                               *)
(***************************************************************************)
\* the state holds what the call r returned or threw
SameOutcome(r) ==
  /\ fibers = r.fibers
  /\ returnFiber = [r.parent EXCEPT !.child = r.firstChild]
  /\ thrown = r.thrown

\* C22: reconciling an iterator that yields the items gives what reconciling
\* the array of those items gives: the same chain (the same reused and created
\* fibers, in the same order, with the same indexes and placement marks) and
\* the same deletions, or the same thrown value.
IteratorAsArray ==
  (rpc \in {"reconciled", "thrown"} /\ newChild.kind = "iterable") =>
    SameOutcome(reconcileChildFibers(tracked,
                  [NoReturnFiber EXCEPT !.mode = returnFiber.mode],
                  currentChildren, CurrentFirstChild, ArrayNode(newChild.children)))

\* C22 witness: an iterator of three items over three previous fibers; the
\* forward scan stops at the first item, the map serves the rest: a fiber is
\* reused and moved, a fiber is created and a previous fiber is deleted.
IteratorAsArrayWitness ==
  /\ rpc = "reconciled" /\ tracked
  /\ newChild.kind = "iterable"
  /\ Len(newChild.children) = 3
  /\ Len(currentChildren) = 3
  /\ Len(ResultChain) = 3
  /\ fibers[ResultChain[1]].alternate = 3
  /\ fibers[ResultChain[2]].alternate = NULL
  /\ fibers[ResultChain[3]].alternate = 1
  /\ Placement \in fibers[ResultChain[3]].flags
  /\ returnFiber.deletions = <<2>>

(***************************************************************************)
(* Records enqueued while the queue is being processed.                    *)
(***************************************************************************)
\* a step in which a call of processUpdateQueue returns
PassReturns ==
  /\ pc' = "idle"
  /\ \/ pc = "loop"
     \/ \E m \in RenderMasks : processUpdateQueueBegin(m.render, m.root)

\* the records enqueued during the call were visited by it, each behind the
\* records enqueued before it, and skipped or folded by the rule of the loop
DuringProcessed ==
  \A i \in hist.during :
     \E k \in 1..Len(loc.visited) :
        /\ loc.visited[k].update.orig = i
        /\ \A j \in 1..Len(loc.visited) : (loc.visited[j].update.orig < i) <=> (j < k)
        /\ loc.visited[k].skipped =
             shouldSkipUpdate(loc.visited[k].update, loc.renderLanes, loc.rootRenderLanes)
        /\ ~loc.visited[k].skipped => i \in hist.wipApplied

\* C23: a record appended to the shared queue while processUpdateQueue folds a
\* record of the same node is processed by that same call, after all earlier
\* records and under the same skip rule, and the shared queue is empty when
\* the call returns.
RenderPhaseProcessed ==
  [][PassReturns => (shared'.pending = NULL /\ DuringProcessed')]_vars

\* C23 witness: the first record's payload enqueued a second, whose payload
\* enqueued a third of a tier outside the mask: the call returned having folded
\* the second and skipped the third.
RenderPhaseProcessedWitness ==
  /\ pc = "idle" /\ wip.exists
  /\ shared.pending = NULL
  /\ hist.during = {2, 3}
  /\ Len(loc.visited) = 3
  /\ ~loc.visited[1].skipped
  /\ ~loc.visited[2].skipped
  /\ loc.visited[3].skipped
  /\ wip.memoizedState = [log |-> <<1, 2>>, v |-> 0]

(***************************************************************************)
(* Termination of the loop of processUpdateQueue.                          *)
(***************************************************************************)
\* one iteration of the do-while loop, whatever the payload enqueues
LoopIteration ==
  \E enq \in {<<>>} \cup {<<u>> : u \in RenderPhaseInputs(hist.n + 1)} :
     processUpdateQueueStep(enq)

\* the records enqueued in the behaviours checked for termination
MaxLiveUpdates == 2

NextQueueLive == NextQueue /\ hist'.n <= MaxLiveUpdates

\* the loop is a synchronous do-while: once entered, its iterations run
SpecQueueLive == Init /\ [][NextQueueLive]_vars /\ WF_vars(LoopIteration)

VisitedOrigs == [i \in 1..Len(loc.visited) |-> loc.visited[i].update.orig]

\* the members of a set of numbers in increasing order
Ascending(S) ==
  CHOOSE s \in [1..Cardinality(S) -> S] : IsIncreasing(s) /\ Range(s) = S

\* an iteration either returns, having visited the base list of the start of
\* the call and the records enqueued during the call, each once and in order,
\* with the shared queue empty; or it goes on with a record not visited yet
LoopStepOutcome ==
  pc = "loop" =>
    IF pc' = "idle"
      THEN /\ VisitedOrigs' = BaseOrigs(loc.firstBaseUpdate) \o Ascending(hist'.during)
           /\ shared'.pending = NULL
      ELSE /\ Len(loc'.visited) = Len(loc.visited) + 1
           /\ loc'.update # NULL
           /\ heap'[loc'.update].orig \notin Range(VisitedOrigs')

\* C24: processUpdateQueue terminates when the folded records enqueue finitely
\* many further records; it visits every record of the base list and of the
\* shared queue exactly once and returns exactly when the list is walked to
\* its end and the shared queue is empty.
QueueWalkTerminates ==
  /\ [][LoopStepOutcome]_vars
  /\ (pc = "loop") ~> (pc = "idle")

\* C24 witness: a call that started with one record returned after two visits,
\* the second to a record the first one's payload enqueued, which it skipped.
QueueWalkTerminatesWitness ==
  /\ pc = "idle" /\ wip.exists
  /\ shared.pending = NULL
  /\ hist.during = {2}
  /\ VisitedOrigs = <<1, 2>>
  /\ loc.visited[2].skipped

(***************************************************************************)
(* What a pass leaves on the node and its queue.                           *)
(***************************************************************************)
\* a call of processUpdateQueue has returned after visiting records
PassRan == pc = "idle" /\ wip.exists /\ Len(loc.visited) >= 1

SkippedVisits == {k \in 1..Len(loc.visited) : loc.visited[k].skipped}

\* C26: after a pass that processed at least one record and skipped none, the
\* base list is empty (firstBaseUpdate and lastBaseUpdate are null), baseState
\* is the node's new memoizedState and the node's remaining lanes are empty.
CleanPass ==
  (PassRan /\ SkippedVisits = {}) =>
    /\ wipQ.firstBaseUpdate = NULL
    /\ wipQ.lastBaseUpdate = NULL
    /\ wipQ.baseState = wip.memoizedState
    /\ wip.lanes = NoLanes

\* C26 witness: a pass folded three records, skipping none, over a base list
\* that an earlier pass had left behind a skipped record.
CleanPassWitness ==
  /\ PassRan /\ SkippedVisits = {}
  /\ hist.rebased
  /\ Len(loc.visited) = 3
  /\ loc.visited[2].update.lane = NoLane
  /\ wip.memoizedState = [log |-> <<1, 2, 3>>, v |-> 0]
  /\ wipQ.baseState = wip.memoizedState
  /\ wipQ.firstBaseUpdate = NULL

\* the tier of a record: its lane without the mark of a hidden tree
TierOf(update) == removeLanes(update.lane, OffscreenLane)

\* C27: after a pass the node's remaining lanes are the union of the tiers of
\* the records the pass skipped; a record applied behind a skipped one is
\* retained with NoLane, and a record of NoLane is skipped by no pass.
RemainingLanes ==
  /\ (pc = "idle" /\ wip.exists /\ loc.renderLanes # NoLanes) =>
        wip.lanes = UNION {TierOf(loc.visited[k].update) : k \in SkippedVisits}
  /\ (PassRan /\ SkippedVisits # {}) =>
        LET k == FirstSkipped(loc.visited)
            list == BaseList(heap, wipQ.firstBaseUpdate)
        IN  \A i \in 1..Len(list) :
               heap[list[i]].lane =
                 IF loc.visited[k + i - 1].skipped
                   THEN TierOf(loc.visited[k + i - 1].update)
                   ELSE NoLane
  /\ \A k \in 1..Len(loc.visited) :
        loc.visited[k].update.lane = NoLane => ~loc.visited[k].skipped

\* C27 witness: an earlier pass at L1 skipped the first record (L2) and folded
\* the second (L1) behind it; a pass at L2 then folds both, the second with
\* NoLane although L1 is outside the mask, and skips a third record of tier
\* L1, which is what remains on the node.
RemainingLanesWitness ==
  /\ PassRan
  /\ loc.renderLanes = {"L2"}
  /\ Len(loc.visited) = 3
  /\ loc.visited[1].update.lane = {"L2"} /\ ~loc.visited[1].skipped
  /\ loc.visited[2].update.lane = NoLane /\ ~loc.visited[2].skipped
  /\ loc.visited[3].update.lane = {"L1"} /\ loc.visited[3].skipped
  /\ wip.lanes = {"L1"}
  /\ Len(BaseList(heap, wipQ.firstBaseUpdate)) = 1

(***************************************************************************)
(* getStateFromUpdate on its own: the work in progress folds one record    *)
(* after the other, of every tag and with every kind of payload.           *)
(***************************************************************************)
\* the records folded one after the other
MaxFolds == 3

GetStateFromUpdate(update) ==
  /\ pc = "idle"
  /\ wip.exists
  /\ hist.n < MaxFolds
  /\ wip' = [wip EXCEPT !.memoizedState = getStateFromUpdate(update, @),
                        !.flags = stepFlags(@, update, FALSE)]
  /\ hasForceUpdate' = (hasForceUpdate \/ forcesUpdate(update, FALSE))
  /\ loc' = [NoLoc EXCEPT !.startState = wip.memoizedState,
                          !.newState = getStateFromUpdate(update, wip.memoizedState),
                          !.visited = <<[update |-> update, skipped |-> FALSE]>>]
  /\ hist' = [hist EXCEPT !.n = @ + 1]
  /\ UNCHANGED <<heap, shared, curQ, wipQ, cur, pc>>
  /\ UNCHANGED <<cvars, hvars>>

NextFold ==
  \/ StartRender
  \/ \E tag \in {UpdateState, ReplaceState, CaptureUpdate, ForceUpdate} :
       \E kind \in {"function", "functionNull", "object", "null"} :
          GetStateFromUpdate(createUpdate({"L1"}, tag, [kind |-> kind, arg |-> hist.n + 1],
                                          NULL, hist.n + 1))

SpecFold == Init /\ [][NextFold]_vars

\* getStateFromUpdate has just folded a record
Folded == pc = "idle" /\ wip.exists /\ loc.renderLanes = NoLanes /\ Len(loc.visited) = 1

\* what the payload is, or what it returns for prevState when it is a function
Given(payload, prevState) ==
  IF isFunction(payload) THEN payloadCall(payload, prevState)
  ELSE IF payload.kind = "null" THEN NullState
  ELSE payloadObject(payload)

\* C28: folding one record: a replace record makes the state the payload, or
\* what the payload returns for the prior state when it is a function, and
\* nothing of the prior state is kept; a merge record yields the prior state
\* overlaid with the fields of the payload (of what it returns when it is a
\* function), and the prior state itself when that is null.
FoldOneRecord ==
  Folded =>
    LET update == loc.visited[1].update
        prevState == loc.startState
        nextState == wip.memoizedState
        given == Given(update.payload, prevState)
    IN  /\ update.tag = ReplaceState => nextState = given
        /\ update.tag = UpdateState =>
             IF given = NullState
               THEN nextState = prevState
               ELSE /\ DOMAIN nextState = (DOMAIN prevState) \cup (DOMAIN given)
                    /\ \A k \in DOMAIN given : nextState[k] = given[k]
                    /\ \A k \in (DOMAIN prevState) \ (DOMAIN given) :
                          nextState[k] = prevState[k]

\* C28 witness: a replace record had left {v: 1}, dropping the log; a merge
\* record whose payload function returns {log: [2]} is folded over it.
FoldOneRecordWitness ==
  /\ Folded
  /\ loc.visited[1].update.tag = UpdateState
  /\ loc.visited[1].update.payload.kind = "function"
  /\ loc.startState = [v |-> 1]
  /\ wip.memoizedState = [log |-> <<2>>, v |-> 1]

(***************************************************************************)
(* The flag hasForceUpdate.                                                *)
(***************************************************************************)
\* the visits of the running or returned call that folded a ForceUpdate record
ForcedVisits ==
  {k \in 1..Len(loc.visited) :
     ~loc.visited[k].skipped /\ loc.visited[k].update.tag = ForceUpdate}

\* a call of processUpdateQueue is running, or has returned on this work in
\* progress
InOrAfterPass == pc = "loop" \/ (pc = "idle" /\ wip.exists /\ loc.renderLanes # NoLanes)

\* C29: hasForceUpdate is cleared when processUpdateQueue starts, and is set
\* when the call returns exactly when the call folded a ForceUpdate record
\* whose tier qualified; a skipped ForceUpdate record does not set it, and
\* folding a ForceUpdate record leaves the state unchanged.
ForceFlag ==
  /\ [](InOrAfterPass => (hasForceUpdate <=> ForcedVisits # {}))
  /\ [][(pc = "loop" /\ heap[loc.update].tag = ForceUpdate) =>
          loc'.newState = loc.newState]_vars

\* C29 witness: at mask L2 the call skipped a record of tier L1 and folded the
\* ForceUpdate record behind it: the flag is set and the state is the one the
\* call started with.
ForceFlagWitness ==
  /\ PassRan
  /\ loc.renderLanes = {"L2"}
  /\ Len(loc.visited) = 2
  /\ loc.visited[1].skipped
  /\ loc.visited[2].update.tag = ForceUpdate /\ ~loc.visited[2].skipped
  /\ hasForceUpdate
  /\ wip.memoizedState = loc.startState

(***************************************************************************)
(* The callbacks of the records.                                           *)
(***************************************************************************)
\* C30: across committed passes the callback of a record is put in the
\* queue's callbacks list exactly once, by the pass that first folds the
\* record: the clone retained for a skipped record keeps the callback, the
\* clone retained for a record folded behind a skip has none.
CallbackOnce ==
  /\ ~hist.again
  /\ hist.collected = hist.committed
  /\ (PassRan /\ SkippedVisits # {}) =>
        LET k == FirstSkipped(loc.visited)
            list == BaseList(heap, wipQ.firstBaseUpdate)
        IN  \A i \in 1..Len(list) :
               heap[list[i]].callback =
                 IF loc.visited[k + i - 1].skipped
                   THEN loc.visited[k + i - 1].update.callback
                   ELSE NULL

\* C30 witness: a committed pass at L1 skipped the first record and folded the
\* second behind it; a later committed pass folded both, and a third record:
\* the three callbacks were each collected once.
CallbackOnceWitness ==
  /\ pc = "idle" /\ ~wip.exists
  /\ ~hist.discarded
  /\ hist.rebased
  /\ hist.n = 3
  /\ hist.collected = {1, 2, 3}
  /\ curQ.firstBaseUpdate = NULL
  /\ cur.memoizedState = [log |-> <<1, 2, 3>>, v |-> 0]

(***************************************************************************)
(* The lanes of the shared queue.                                          *)
(***************************************************************************)
\* C31: when a call of processUpdateQueue that went through its loop returns
\* leaving no record in the base list of the work-in-progress queue, the
\* lanes of the shared queue are NoLanes.
LanesResetWhenEmpty ==
  [][pc = "loop" /\ pc' = "idle" /\ wipQ'.firstBaseUpdate = NULL
       => shared'.lanes = NoLanes]_vars

(***************************************************************************)
(* Captured records.                                                       *)
(***************************************************************************)
\* the records of a base list, without their links
Records(h, first) ==
  [i \in 1..Len(BaseList(h, first)) |-> [h[BaseList(h, first)[i]] EXCEPT !.next = NULL]]

CapturedInCurrent ==
  \E i \in 1..Len(Records(heap, curQ.firstBaseUpdate)) :
     Records(heap, curQ.firstBaseUpdate)[i].orig = CapturedOrig

CaptureStep == \E u \in CapturedInputs : enqueueCapturedUpdate(u)

\* the last base record of the work-in-progress queue is an object of the
\* current queue's base list: cloneUpdateQueue copied the pointers and
\* processUpdateQueue has not rebuilt the list since
SharesLast ==
  /\ wip.cloned
  /\ wipQ.lastBaseUpdate # NULL
  /\ wipQ.lastBaseUpdate \in Range(BaseList(heap, curQ.firstBaseUpdate))

WithoutCallbacks(records) == [i \in 1..Len(records) |-> [records[i] EXCEPT !.callback = NULL]]

ClaimSucceeds ==
  /\ ClaimBegins
  /\ BoundTo(tree[workInProgress]) = NULL
  /\ BoundTo(tree'[workInProgress]) # NULL

\* C33: when a fiber has claimed an instance it is the hydration parent, and
\* the cursor is the first child of the claimed instance for a host component
\* and empty for a text and for a boundary.
CursorAfterClaim ==
  [][ClaimSucceeds =>
       /\ hydrationParentFiber' = workInProgress
       /\ nextHydratableInstance' =
            IF tree[workInProgress].tag = HostComponent
              THEN dom[BoundTo(tree'[workInProgress])].first
              ELSE NULL
       /\ BoundTo(tree'[workInProgress]) \in Range(attempted')
       /\ isHydrating']_vars

\* C33 witness: a boundary with a child has claimed a suspense instance that
\* has content: it is the hydration parent, the cursor is empty and the
\* boundary is completed without its child being begun.
CursorAfterClaimWitness ==
  /\ hpc = "complete"
  /\ retried = NULL
  /\ tree[workInProgress].tag = SuspenseComponent
  /\ tree[workInProgress].child # NULL
  /\ tree[workInProgress].dehydrated # NULL
  /\ dom[tree[workInProgress].dehydrated].first # NULL
  /\ hydrationParentFiber = workInProgress
  /\ nextHydratableInstance = NULL
  /\ isHydrating

(***************************************************************************)
(* Falling back to insertion and resuming.                                 *)
(***************************************************************************)
RECURSIVE NearestHostParent(_)

\* the nearest ancestor that is a host component, the root or a boundary
NearestHostParent(fiber) ==
  IF tree[fiber].return = NULL
    THEN NULL
  ELSE IF tree[tree[fiber].return].tag \in {HostComponent, HostRoot, SuspenseComponent}
    THEN tree[fiber].return
    ELSE NearestHostParent(tree[fiber].return)

\* both attempts of the fiber begun in this step fail, or the first fails and
\* no instance follows, and the fiber does not demand strict matching
ClaimFails == MismatchAtCursor /\ ~FollowingMatches /\ ~StrictMatching

\* the fiber that fell back to insertion is about to be completed
ResumeBegins ==
  /\ hpc = "complete"
  /\ ~isHydrating
  /\ workInProgress = hydrationParentFiber

\* C34: without strict matching, a fiber whose attempts fail leaves the
\* cursor where it was, switches hydrating off and becomes the hydration
\* parent; while hydrating is off no fiber that is begun attempts a claim, and
\* cursor and hydration parent stay; when the fiber is completed
\* popHydrationState switches hydrating on, makes the nearest host, root or
\* boundary ancestor the hydration parent, leaves the cursor, and returns
\* false; the sibling begun next makes its first attempt at that cursor.
RollbackAndResume ==
  /\ [][ClaimFails =>
          /\ nextHydratableInstance' = nextHydratableInstance
          /\ ~isHydrating'
          /\ hydrationParentFiber' = workInProgress
          /\ BoundTo(tree'[workInProgress]) = NULL
          /\ hpc' # "thrown"]_vars
  /\ [][(/\ ~isHydrating /\ hydrationParentFiber # NULL
         /\ hpc \in {"begin", "complete"} /\ ~ResumeBegins) =>
          /\ attempted' = <<>>
          /\ nextHydratableInstance' = nextHydratableInstance
          /\ hydrationParentFiber' = hydrationParentFiber
          /\ tree' = tree
          /\ ~isHydrating']_vars
  /\ [][ResumeBegins =>
          /\ isHydrating'
          /\ hydrationParentFiber' = NearestHostParent(workInProgress)
          /\ nextHydratableInstance' = nextHydratableInstance
          /\ ~popHydrationState(dom, Context, workInProgress).hydrated
          /\ tree' = tree
          /\ tree[workInProgress].sibling # NULL =>
                hpc' = "begin" /\ workInProgress' = tree[workInProgress].sibling]_vars
  /\ [][ClaimBegins /\ attempted' # <<>> => attempted'[1] = nextHydratableInstance]_vars

\* C34 witness: in the pass that re-entered a boundary the child of the
\* boundary fell back to insertion and was completed: hydrating is on again,
\* the boundary is the hydration parent and the cursor is still at the
\* content the child could not claim.
RollbackAndResumeWitness ==
  /\ hpc = "complete"
  /\ retried # NULL
  /\ workInProgress = retried
  /\ isHydrating
  /\ hydrationParentFiber = retried
  /\ tree[retried].child # NULL
  /\ Placement \in tree[tree[retried].child].flags
  /\ tree[tree[retried].child].stateNode = NULL
  /\ nextHydratableInstance # NULL
  /\ nextHydratableInstance = dom[tree[retried].dehydrated].first
  /\ dom[nextHydratableInstance].next # NULL

(***************************************************************************)
(* Bindings and deletions of the instances.                                *)
(***************************************************************************)
RECURSIVE Concat(_)

\* the sequences of a sequence, joined
Concat(ss) == IF ss = <<>> THEN <<>> ELSE Head(ss) \o Concat(Tail(ss))

\* the instances scheduled for deletion, on any fiber
AllDeletions == Concat([f \in 1..Len(tree) |-> tree[f].deletions])

\* the fibers bound to an instance
BoundFibers == {f \in 1..Len(tree) : BoundTo(tree[f]) # NULL}

Tolerant == \A f \in 1..Len(tree) : ~shouldClientRenderOnMismatch(Context, f)

BindingsAndDeletions ==
  /\ \A f, g \in BoundFibers : BoundTo(tree[f]) = BoundTo(tree[g]) => f = g
  /\ \A f \in BoundFibers : BoundTo(tree[f]) \notin Range(AllDeletions)
  /\ NoDuplicates(AllDeletions)

\* C37: without strict matching, in every state of a hydration pass no two
\* fibers are bound to one instance, no instance a fiber is bound to is
\* scheduled for deletion, and no instance is scheduled for deletion twice.
ExclusiveInstances == Tolerant => BindingsAndDeletions

\* C37 witness: a pass without strict matching has ended with a fiber bound
\* to the instance that followed the one at the cursor, the skipped instance
\* deleted on the root and two instances left inside the claimed one deleted
\* on the fiber.
ExclusiveInstancesWitness ==
  /\ hpc = "done"
  /\ tree # <<>>
  /\ Tolerant
  /\ tree[1].stateNode = 2
  /\ tree[Len(tree)].deletions = <<1>>
  /\ Len(tree[1].deletions) = 2
  /\ Len(tree) = 3
  /\ tree[2].stateNode = NULL

(***************************************************************************)
(* C35: an empty description deletes the whole previous chain.             *)
(***************************************************************************)
\* the tracking reconciler returned for a description that is null, undefined,
\* a boolean or the empty string
EmptyPass == ReconcileDone /\ tracked /\ newChild.kind = "empty"

\* C35: when the new description is null, undefined, a boolean or the empty
\* string, reconcileChildFibers puts every previous sibling in the parent's
\* deletion list exactly once (in chain order) and returns null, building no
\* fiber.
EmptyDeletesAll ==
  EmptyPass =>
    /\ returnFiber.child = NULL
    /\ fibers = <<>>
    /\ returnFiber.deletions = [p \in PrevPositions |-> p]
    /\ NoDuplicates(returnFiber.deletions)
    /\ (PrevPositions # {}) = (ChildDeletion \in returnFiber.flags)

\* C35 witness: an empty description against a previous chain of three siblings
EmptyDeletesAllWitness ==
  /\ EmptyPass
  /\ Len(currentChildren) = 3
  /\ returnFiber.deletions = <<1, 2, 3>>
  /\ returnFiber.child = NULL

(***************************************************************************)
(* C36: cloneChildFibers raises and clones nothing, or clones the chain.   *)
(***************************************************************************)
CloneStep == rpc \in {"idle", "reconciled"} /\ rpc' \in {"cloned", "cloneThrown"}

\* the parent has a current fiber and its children were reconciled to a chain
\* that is not the current one (two null pointers are the same child)
ChildDiverged ==
  /\ rpc = "reconciled"
  /\ tracked
  /\ ~(returnFiber.child = NULL /\ currentChildren = <<>>)

\* fs is the chain of counterparts of the fibers of chain, from first on
CounterpartsOf(chain, fs, first) ==
  LET ids == ChainFrom(fs, first, Len(fs))
  IN  /\ Len(fs) = Len(chain)
      /\ ids = [i \in 1..Len(chain) |-> i]
      /\ \A i \in 1..Len(chain) :
            /\ fs[i].alternate = i
            /\ fs[i].key = chain[i].key
            /\ fs[i].tag = chain[i].tag
            /\ fs[i].elementType = chain[i].elementType
            /\ fs[i].return = ParentLink
      /\ fs[Len(fs)].sibling = NULL

\* C36: cloneChildFibers raises 'Resuming work not yet implemented.' and leaves
\* every fiber and the parent as they were when the parent has a current fiber
\* and its child is not the current parent's child; otherwise nothing is
\* raised and the parent's child chain (when it is not null) is replaced by the
\* work-in-progress counterparts of its fibers: as many, in the same order,
\* each with its return link on the parent, the last with a null sibling.
CloneAllOrNothing ==
  [][CloneStep =>
       IF ChildDiverged
         THEN /\ rpc' = "cloneThrown"
              /\ thrown' = ResumingError
              /\ UNCHANGED <<fibers, returnFiber, currentChildren>>
         ELSE /\ rpc' = "cloned"
              /\ thrown' = NoThrow
              /\ IF ChildChain = <<>>
                   THEN UNCHANGED <<fibers, returnFiber, currentChildren>>
                   ELSE CounterpartsOf(ChildChain, fibers', returnFiber'.child)]_vars

\* C36 witness: the three children of a bailed-out parent were cloned
CloneAllOrNothingWitness ==
  /\ rpc = "cloned"
  /\ Len(currentChildren) = 3
  /\ CounterpartsOf(currentChildren, fibers, returnFiber.child)

(***************************************************************************)
(* C38: the chain built for a sequence, and what became of the previous    *)
(* siblings.                                                               *)
(***************************************************************************)
\* the positions of the new sequence whose item makes a fiber
RenderablePositions == {j \in 1..Len(NewItems) : NewItems[j].kind # "empty"}

\* the chain holds one fiber per renderable item, in the order of the
\* sequence, with the item's position as index and the parent as return link
OnePerRenderableItem ==
  /\ \A j \in 1..Len(NewItems) :
        Cardinality(ProducedFor(j)) = IF j \in RenderablePositions THEN 1 ELSE 0
  /\ Len(ResultChain) = Cardinality(RenderablePositions)
  /\ \A i \in 1..Len(ResultChain) :
        /\ fibers[ResultChain[i]].return = ParentLink
        /\ fibers[ResultChain[i]].index + 1 \in RenderablePositions
        /\ NewItems[fibers[ResultChain[i]].index + 1].kind = "element"
             => fibers[ResultChain[i]].key = NewItems[fibers[ResultChain[i]].index + 1].key
        /\ i > 1 => fibers[ResultChain[i - 1]].index < fibers[ResultChain[i]].index

\* no previous fiber is the alternate of two fibers of the chain
ReusedOnce ==
  \A i, j \in 1..Len(ResultChain) :
     (i < j /\ fibers[ResultChain[i]].alternate # NULL)
       => fibers[ResultChain[i]].alternate # fibers[ResultChain[j]].alternate

\* every previous sibling is reused or deleted, and none is both
ReusedOrDeleted == \A p \in PrevPositions : (p \in Reused) # (p \in Deleted)

SequencePass == ReconcileDone /\ tracked /\ IsArrayPass

SequenceChainFor(distinctKeys) ==
  (SequencePass /\ (distinctKeys => ExplicitKeysDistinct(currentChildren))) =>
    /\ OnePerRenderableItem
    /\ ReusedOnce
    /\ ReusedOrDeleted

\* C38 as stated: whatever the keys of the previous chain, the chain built for
\* a sequence holds one fiber per renderable item and every previous sibling
\* is either reused or deleted.
SequenceChainAnyKeys == SequenceChainFor(FALSE)

\* C38: the chain returned by reconciling a sequence holds exactly one fiber
\* per item that is not null, undefined, a boolean or the empty string, in
\* sequence order, each with the item's position as index and the parent as
\* return link, and no previous fiber is reused for two items; when the
\* explicit keys of the previous chain are distinct, every previous sibling is
\* either reused or in the deletion list, never both.
SequenceChain ==
  /\ SequenceChainFor(TRUE)
  /\ SequencePass => (OnePerRenderableItem /\ ReusedOnce)

\* C38 witness: a sequence with an empty item reconciled against distinct
\* keys: the item is skipped, one sibling is reused at the position of its
\* item and another is deleted
SequenceChainWitness ==
  /\ SequencePass
  /\ ExplicitKeysDistinct(currentChildren)
  /\ Len(NewItems) = 2
  /\ NewItems[1].kind = "empty"
  /\ Len(ResultChain) = 1
  /\ fibers[ResultChain[1]].index = 1
  /\ \E p, q \in PrevPositions :
        p \in Reused /\ q \in Deleted /\ currentChildren[q].key # NoKey

(***************************************************************************)
(* C39: the fibers that stay in place keep their order.                    *)
(***************************************************************************)
\* the reused fibers of the chain that carry no placement mark, in chain order
StayingFibers ==
  SelectSeq(ResultChain,
            LAMBDA id : fibers[id].alternate # NULL /\ Placement \notin fibers[id].flags)

PreviousIndex(id) == currentChildren[fibers[id].alternate].index

\* the fibers the first loop of reconcileChildrenArray appended, which are the
\* first fibers of the pass
ForwardScanned ==
  forwardScan(TRUE, currentChildren, TopLevel(newChild).children,
              [fibers |-> <<>>, parent |-> NoReturnFiber, resultingFirstChild |-> NULL,
               previousNewFiber |-> NULL, oldFiber |-> CurrentFirstChild,
               lastPlacedIndex |-> 0, newIdx |-> 0, existingChildren |-> <<>>,
               thrown |-> NoThrow]).fibers

\* C39: after a sequence is reconciled with effect tracking on, the reused
\* fibers without the placement mark stand in the new chain in strictly
\* increasing order of their previous index; a fiber the forward scan reused
\* stands at its previous index and is not marked for placement.
StayingKeepOrder ==
  SequencePass =>
    /\ \A i, j \in 1..Len(StayingFibers) :
          i < j => PreviousIndex(StayingFibers[i]) < PreviousIndex(StayingFibers[j])
    /\ \A id \in 1..Len(ForwardScanned) :
          fibers[id].alternate # NULL =>
            /\ fibers[id].index = PreviousIndex(id)
            /\ Placement \notin fibers[id].flags

\* C39 witness: the forward scan reused the first sibling, the map phase
\* reused the third before the second: the first and third stay, the second
\* is marked
StayingKeepOrderWitness ==
  /\ SequencePass
  /\ Len(currentChildren) = 3
  /\ Len(ForwardScanned) = 1
  /\ fibers[1].alternate = 1
  /\ Len(ResultChain) = 3
  /\ fibers[ResultChain[2]].alternate = 3
  /\ fibers[ResultChain[3]].alternate = 2
  /\ StayingFibers = <<ResultChain[1], ResultChain[2]>>

(***************************************************************************)
(* C40: the structural effects of the mount and of the tracking            *)
(* reconciler.                                                             *)
(***************************************************************************)
\* a call of a reconciler returned or threw
ReconcileStep == rpc = "idle" /\ rpc' \in {"reconciled", "thrown"}

\* the marks lastPlacedIndex can hold
PlacedIndexes == 0..MaxChildren

\* C40: a call of the mount reconciler (effect tracking off) leaves the
\* parent's deletion list and flags as they were, whatever the current chain,
\* and returns no fiber with the placement mark; each fiber placed from a
\* sequence carries Forked and placeChild hands lastPlacedIndex back
\* unchanged.  A call of the tracking reconciler that records deletions leaves
\* the parent with a deletion list and the ChildDeletion flag together, and
\* recording a further deletion appends to the list and writes nothing else.
StructuralEffects ==
  [][ReconcileStep =>
       /\ ~tracked' =>
            /\ returnFiber'.deletions = returnFiber.deletions
            /\ returnFiber'.flags = returnFiber.flags
            /\ \A id \in Built' : Placement \notin fibers'[id].flags
            /\ TopLevel(newChild').kind = "array" =>
                 \A id \in Built' :
                    /\ Forked \in fibers'[id].flags
                    /\ \A mark \in PlacedIndexes :
                          placeChild(FALSE, currentChildren, fibers'[id], mark,
                                     fibers'[id].index).lastPlacedIndex = mark
       /\ tracked' =>
            /\ (returnFiber'.deletions # <<>>) = (ChildDeletion \in returnFiber'.flags)
            /\ \A id \in Built' : Forked \notin fibers'[id].flags
            /\ \A p \in PrevPositions :
                  deleteChild(TRUE, returnFiber', p) =
                    IF returnFiber'.deletions = <<>>
                      THEN [returnFiber' EXCEPT !.deletions = <<p>>,
                                                !.flags = @ \cup {ChildDeletion}]
                      ELSE [returnFiber' EXCEPT !.deletions = Append(@, p)]]_vars

\* C40 witness: the mount reconciler built a chain of two fibers over a
\* current chain of three fibers and recorded nothing on the parent
StructuralEffectsWitness ==
  /\ rpc = "reconciled"
  /\ ~tracked
  /\ Len(currentChildren) = 3
  /\ Len(ResultChain) = 2
  /\ returnFiber.deletions = <<>>
  /\ \A id \in Built : fibers[id].flags = {Forked}

====
